---- MODULE Spec2Model ----
(***************************************************************************)
(* Model of the G414 chess analysis engine: the worker pool, the plan      *)
(* generator and the analysis coordinator of analysis.js, and the          *)
(* transposition table of engine.js.                                       *)
(*                                                                         *)
(* The main thread of the page is one JavaScript event loop.  An action    *)
(* of the model is one macrotask (a call made by the page, or the          *)
(* delivery of one worker event) together with the promise reactions       *)
(* (microtasks) it triggers, which JavaScript runs to completion before    *)
(* the next macrotask.                                                     *)
(***************************************************************************)
EXTENDS Integers, Sequences, FiniteSets, TLC

VARIABLES
  pools,        \* run number -> WorkerPool object {workers, queue, active}
  inbox,        \* run number -> worker index -> jobs posted to it, unanswered
  nDispatched,  \* pool driver: number of dispatch calls made so far
  postLog,      \* pool driver: the postMessage calls, in order: <<worker, idx>>
  settleCalls,  \* pool driver: task -> number of resolve/reject calls on its job
  payloads,     \* pool driver: task -> what its promise was settled with
  planIn,       \* plan driver: the arguments of PlanQueue.generate
  planOut,      \* plan driver: the task list it returned
  planPc,       \* plan driver: "call" before the call, "done" after
  ttTable,      \* engine.js: the transposition table, slot -> entry
  ttLastSet,    \* table driver: the last ttSet call and the slot's depth before it
  ttProbe,      \* table driver: the ttGet call made since, with its result
  coord,        \* the AnalysisCoordinator object: its options and fields
  pending,      \* run number -> unsettled promises of that start call
  emission,     \* what onUpdate received last since the last start call
  watch,        \* observations on the current run (no program state)
  game,         \* search driver: the game the worker is asked to search
  wk,           \* the worker: task messages received and replies posted
  eng,          \* engine.js globals: _nodes, _killers, _histTable, _counterMoves, _moveStack
  boards,       \* the Chess objects alive in the worker, each with its move history
  stack,        \* the worker's call stack: onmessage, searchRoot, alphaBeta, quiescence
  ret,          \* the value the last finished call returned, and what it left behind
  _results,     \* AnalysisCoordinator._results, the Map's entries in insertion order
  linesOut,     \* the lines onUpdate received last
  evalIn,       \* evaluate driver: the position evaluate is called on
  evalOut       \* evaluate driver: what evaluate returned for it and for its mirror

driverVars == <<nDispatched, postLog, settleCalls, payloads>>
poolVars == <<pools, inbox, driverVars>>
planVars == <<planIn, planOut, planPc>>
ttVars   == <<ttTable, ttLastSet, ttProbe>>
coordVars == <<coord, pending, emission, watch>>
searchVars == <<game, wk, eng, boards, stack, ret>>
linesVars == <<_results, linesOut>>
evalVars == <<evalIn, evalOut>>
engineVars == <<searchVars, linesVars, evalVars>>
vars == <<poolVars, planVars, ttVars, coordVars, engineVars>>

(***************************************************************************)
(* Bounds of the model.                                                    *)
(***************************************************************************)
PoolSize == 2       \* largest pool size N explored
MaxTasks == 3       \* dispatch calls made by the pool driver
MaxRuns  == 2       \* start(fen) calls made on one coordinator
MaxCoordPlans == 2  \* largest maxPlans option of the coordinator
MaxRootMoves == 3   \* legal root moves of a position given to generate
MaxReplies   == 3   \* legal replies to a root move
MaxPlans     == 8   \* largest maxPlans given to generate
MaxPlanDepth == 3   \* largest maxDepth given to generate
MaxTTDepth   == 1   \* largest search depth stored in or asked of the table

NoJob  == [none |-> TRUE]
NoData == [none |-> TRUE]

EmptyMap == [x \in {} |-> NoJob]

(***************************************************************************)
(* engine.js, self.onmessage: the reply a worker posts for a task.         *)
(* `throws` tells whether searchRoot threw; lines and nodes are what it    *)
(* returned otherwise.                                                     *)
(***************************************************************************)
onmessage(task, throws, lines, nodes) ==
  IF throws
    THEN [type |-> "error",  taskId |-> task.taskId, error |-> "err.message"]
    ELSE [type |-> "result", taskId |-> task.taskId, lines |-> lines, nodes |-> nodes]

(***************************************************************************)
(* WorkerPool.  A pool is a record: workers is the length of the workers   *)
(* array, queue the pending jobs, active the Map worker index -> job.      *)
(* Operations return the new pool together with their effects: posts, the  *)
(* postMessage calls <<worker, job>> in order, and settled, the            *)
(* resolve/reject calls.                                                   *)
(***************************************************************************)
WorkerPool(size) == [workers |-> size, queue |-> <<>>, active |-> EmptyMap]

MapSet(m, k, v) == [x \in DOMAIN m \cup {k} |-> IF x = k THEN v ELSE m[x]]
MapDelete(m, k) == [x \in DOMAIN m \ {k} |-> m[x]]
MapGet(m, k)    == IF k \in DOMAIN m THEN m[k] ELSE NoJob

RECURSIVE DrainLoop(_, _, _)
DrainLoop(p, posts, i) ==
  IF i >= p.workers THEN [pool |-> p, posts |-> posts]
  ELSE IF i \in DOMAIN p.active THEN DrainLoop(p, posts, i + 1)
  ELSE IF p.queue = <<>> THEN [pool |-> p, posts |-> posts]
  ELSE LET job == Head(p.queue)
       IN  DrainLoop([p EXCEPT !.queue = Tail(@), !.active = MapSet(@, i, job)],
                     Append(posts, <<i, job>>), i + 1)

\* A drain that forgets `if (this.active.has(i)) continue`.
RECURSIVE DrainLoopNoBusyCheck(_, _, _)
DrainLoopNoBusyCheck(p, posts, i) ==
  IF i >= p.workers \/ p.queue = <<>> THEN [pool |-> p, posts |-> posts]
  ELSE LET job == Head(p.queue)
       IN  DrainLoopNoBusyCheck(
             [p EXCEPT !.queue = Tail(@), !.active = MapSet(@, i, job)],
             Append(posts, <<i, job>>), i + 1)

\* A drain that takes the newest job (queue.pop) instead of the oldest.
RECURSIVE DrainLoopPop(_, _, _)
DrainLoopPop(p, posts, i) ==
  IF i >= p.workers THEN [pool |-> p, posts |-> posts]
  ELSE IF i \in DOMAIN p.active THEN DrainLoopPop(p, posts, i + 1)
  ELSE IF p.queue = <<>> THEN [pool |-> p, posts |-> posts]
  ELSE LET job == p.queue[Len(p.queue)]
       IN  DrainLoopPop([p EXCEPT !.queue = SubSeq(@, 1, Len(@) - 1),
                                  !.active = MapSet(@, i, job)],
                        Append(posts, <<i, job>>), i + 1)

\* A drain that walks the workers from the last index down.
RECURSIVE DrainLoopDown(_, _, _)
DrainLoopDown(p, posts, i) ==
  IF i < 0 THEN [pool |-> p, posts |-> posts]
  ELSE IF i \in DOMAIN p.active THEN DrainLoopDown(p, posts, i - 1)
  ELSE IF p.queue = <<>> THEN [pool |-> p, posts |-> posts]
  ELSE LET job == Head(p.queue)
       IN  DrainLoopDown([p EXCEPT !.queue = Tail(@), !.active = MapSet(@, i, job)],
                         Append(posts, <<i, job>>), i - 1)

_drain_down(p) == DrainLoopDown(p, <<>>, p.workers - 1)
_drain_noBusyCheck(p) == DrainLoopNoBusyCheck(p, <<>>, 0)
_drain_pop(p) == DrainLoopPop(p, <<>>, 0)
_drain(p) == DrainLoop(p, <<>>, 0)

dispatch(p, job) == _drain([p EXCEPT !.queue = Append(@, job)])

Settle(job, how, value) ==
  IF job = NoJob THEN <<>> ELSE <<[job |-> job, how |-> how, value |-> value]>>

\* A handler that forgets `this.active.delete(idx)`.
_onMessage_noDelete(p, idx, data) ==
  LET job == MapGet(p.active, idx)
      d   == _drain(p)
  IN  [pool |-> d.pool, posts |-> d.posts, settled |-> Settle(job, "resolve", data)]

\* A handler that looks its job up only after the drain.
_onMessage_drainFirst(p, idx, data) ==
  LET d   == _drain([p EXCEPT !.active = MapDelete(@, idx)])
      job == MapGet(d.pool.active, idx)
  IN  [pool |-> d.pool, posts |-> d.posts, settled |-> Settle(job, "resolve", data)]

_onMessage(p, idx, data) ==
  LET job == MapGet(p.active, idx)
      d   == _drain([p EXCEPT !.active = MapDelete(@, idx)])
  IN  [pool |-> d.pool, posts |-> d.posts, settled |-> Settle(job, "resolve", data)]

\* a handler that does not look at the queue again
_onError_noDrain(p, idx, err) ==
  LET job == MapGet(p.active, idx)
  IN  [pool |-> [p EXCEPT !.active = MapDelete(@, idx)], posts |-> <<>>,
       settled |-> Settle(job, "reject", err)]

_onError(p, idx, err) ==
  LET job == MapGet(p.active, idx)
      d   == _drain([p EXCEPT !.active = MapDelete(@, idx)])
  IN  [pool |-> d.pool, posts |-> d.posts, settled |-> Settle(job, "reject", err)]

\* a terminate that leaves the active map as it is
terminate_keepActive(p) == [workers |-> 0, queue |-> <<>>, active |-> p.active]

terminate(p) == [workers |-> 0, queue |-> <<>>, active |-> EmptyMap]

(***************************************************************************)
(* The workers' side: postMessage appends the job to the worker's inbox;   *)
(* a worker answers the jobs of its inbox one at a time, oldest first.     *)
(***************************************************************************)
RECURSIVE Deliver(_, _)
Deliver(box, posts) ==
  IF posts = <<>> THEN box
  ELSE LET w == Head(posts)[1]
           j == Head(posts)[2]
       IN  Deliver([box EXCEPT ![w] = Append(@, j)], Tail(posts))

EmptyInbox(size) == [i \in 0 .. size - 1 |-> <<>>]

(***************************************************************************)
(* Pool driver: one pool, dispatch calls and worker events in any order.   *)
(* Task n is the n-th dispatched.                                          *)
(***************************************************************************)
PoolTask(n) == [taskId |-> n]
PoolJob(n)  == [run |-> 1, idx |-> n, task |-> PoolTask(n)]

RECURSIVE LogPosts(_, _)
LogPosts(log, posts) ==
  IF posts = <<>> THEN log
  ELSE LogPosts(Append(log, <<Head(posts)[1], Head(posts)[2].idx>>), Tail(posts))

RECURSIVE CountSettled(_, _)
CountSettled(calls, settled) ==
  IF settled = <<>> THEN calls
  ELSE CountSettled([calls EXCEPT ![Head(settled).job.idx] = @ + 1], Tail(settled))

RECURSIVE KeepPayload(_, _)
KeepPayload(pl, settled) ==
  IF settled = <<>> THEN pl
  ELSE KeepPayload([pl EXCEPT ![Head(settled).job.idx] =
                      [how |-> Head(settled).how, value |-> Head(settled).value]],
                   Tail(settled))

PoolIdle ==
  /\ pools = <<>> /\ inbox = <<>> /\ nDispatched = 0 /\ postLog = <<>>
  /\ settleCalls = <<>> /\ payloads = <<>>
PlanIdle == planIn = NoData /\ planOut = <<>> /\ planPc = "idle"
TTIdle   == ttTable = <<>> /\ ttLastSet = NoData /\ ttProbe = NoData
CoordIdle == coord = NoData /\ pending = <<>> /\ emission = NoData /\ watch = NoData
SearchIdle ==
  /\ game = NoData /\ wk = NoData /\ eng = NoData
  /\ boards = <<>> /\ stack = <<>> /\ ret = NoData
LinesIdle == _results = <<>> /\ linesOut = NoData
EvalIdle == evalIn = NoData /\ evalOut = NoData
EngineIdle == SearchIdle /\ LinesIdle /\ EvalIdle

InitPool ==
  /\ \E n \in 1 .. PoolSize :
       /\ pools = (1 :> WorkerPool(n))
       /\ inbox = (1 :> EmptyInbox(n))
  /\ nDispatched = 0
  /\ postLog = <<>>
  /\ settleCalls = [t \in 1 .. MaxTasks |-> 0]
  /\ payloads = [t \in 1 .. MaxTasks |-> NoData]
  /\ PlanIdle /\ TTIdle /\ CoordIdle /\ EngineIdle

PoolDispatch ==
  /\ nDispatched < MaxTasks
  /\ LET n == nDispatched + 1
         d == dispatch(pools[1], PoolJob(n))
     IN  /\ nDispatched' = n
         /\ pools' = [pools EXCEPT ![1] = d.pool]
         /\ inbox' = [inbox EXCEPT ![1] = Deliver(@, d.posts)]
         /\ postLog' = LogPosts(postLog, d.posts)
  /\ UNCHANGED <<settleCalls, payloads, planVars, ttVars, coordVars, engineVars>>

PoolEvent(i, r) ==
  /\ pools' = [pools EXCEPT ![1] = r.pool]
  /\ inbox' = [inbox EXCEPT ![1] = Deliver([@ EXCEPT ![i] = Tail(@)], r.posts)]
  /\ postLog' = LogPosts(postLog, r.posts)
  /\ settleCalls' = CountSettled(settleCalls, r.settled)
  /\ payloads' = KeepPayload(payloads, r.settled)
  /\ UNCHANGED <<nDispatched, planVars, ttVars, coordVars, engineVars>>

\* Worker i answers the job at the head of its inbox with a message.
PoolWorkerMessage(i) ==
  /\ inbox[1][i] # <<>>
  /\ \E throws \in BOOLEAN :
       PoolEvent(i, _onMessage(pools[1], i,
                               onmessage(Head(inbox[1][i]).task, throws, <<>>, 1)))

\* Worker i raises an error event while handling the head of its inbox.
PoolWorkerError(i) ==
  /\ inbox[1][i] # <<>>
  /\ PoolEvent(i, _onError(pools[1], i, [type |-> "ErrorEvent"]))

NextPool ==
  \/ PoolDispatch
  \/ \E i \in DOMAIN inbox[1] : PoolWorkerMessage(i)
  \/ \E i \in DOMAIN inbox[1] : PoolWorkerError(i)

SpecPool == InitPool /\ [][NextPool]_vars

\* Every worker eventually answers a job posted to it.
FairSpecPool ==
  /\ SpecPool
  /\ \A i \in 0 .. PoolSize - 1 :
       WF_vars(i \in DOMAIN inbox[1] /\ (PoolWorkerMessage(i) \/ PoolWorkerError(i)))

(***************************************************************************)
(* Observations on the pool driver.                                        *)
(***************************************************************************)
Posted   == {postLog[k][2] : k \in DOMAIN postLog}
InFlight == {t \in Posted : settleCalls[t] = 0}
PostedTo(t) == {postLog[k][1] : k \in {k \in DOMAIN postLog : postLog[k][2] = t}}

\* C1: in every reachable state of a pool of size N at most N tasks are in
\* flight (posted to a worker, promise not yet settled), and no worker holds
\* more than one task at a time.
AtMostNInFlight ==
  /\ Cardinality(InFlight) <= pools[1].workers
  /\ \A i \in DOMAIN inbox[1] : Len(inbox[1][i]) <= 1
  /\ \A t, u \in InFlight : t # u => PostedTo(t) \cap PostedTo(u) = {}

\* C1 witness: more tasks than workers were dispatched and every worker is busy.
AllWorkersBusy ==
  /\ nDispatched > pools[1].workers
  /\ pools[1].workers = PoolSize
  /\ Cardinality(InFlight) = PoolSize
  /\ pools[1].queue # <<>>

\* C2: every dispatched task eventually has its promise settled, and the
\* pool settles it exactly once, when every worker eventually answers the
\* tasks posted to it.
SettledExactlyOnce ==
  /\ [](\A t \in 1 .. MaxTasks : settleCalls[t] <= 1)
  /\ \A t \in 1 .. MaxTasks : [](nDispatched >= t => <>(settleCalls[t] = 1))

\* C2 witness: all tasks were dispatched, more than there are workers, and
\* each has been settled.
AllSettled ==
  /\ nDispatched = MaxTasks
  /\ pools[1].workers < MaxTasks
  /\ \A t \in 1 .. MaxTasks : settleCalls[t] = 1

\* C3: tasks are posted to workers in submission order.
PostedInSubmissionOrder ==
  \A j, k \in DOMAIN postLog : j < k => postLog[j][2] < postLog[k][2]

\* C3 witness: a task that had to wait in the queue was posted after a
\* worker completed, while a later task is still queued behind it.
QueuedTaskPosted ==
  /\ Len(postLog) > pools[1].workers
  /\ pools[1].queue # <<>>

\* the workers of the pool that hold no job
IdleWorkers(p) == {i \in 0 .. p.workers - 1 : i \notin DOMAIN p.active}

\* the postMessage calls of the step, in order
NewPosts == [k \in 1 .. Len(postLog') - Len(postLog) |-> postLog'[Len(postLog) + k]]

\* C33: after every handled pool event (dispatch, worker message, worker
\* error) no worker is idle while the queue is non-empty, and the pending
\* tasks go to the idle workers in increasing worker-index order: a task is
\* posted to the lowest-index idle worker, and of two tasks posted by one
\* event the earlier submitted goes to the lower index.
NoIdleWorkerWhileQueued ==
  /\ [](pools[1].queue # <<>> => IdleWorkers(pools[1]) = {})
  /\ [][\A k \in DOMAIN NewPosts :
          /\ \A v \in 0 .. NewPosts[k][1] - 1 : v \notin IdleWorkers(pools'[1])
          /\ \A j \in 1 .. k - 1 :
                NewPosts[j][1] < NewPosts[k][1] /\ NewPosts[j][2] < NewPosts[k][2]
       ]_vars

\* C33 witness: the first two tasks went to workers 0 and 1 in that order,
\* a worker event has freed a worker, and the task that waited in the queue
\* has been posted to it.
QueueDrainedToFreedWorker ==
  /\ pools[1].workers = PoolSize
  /\ Len(postLog) = PoolSize + 1
  /\ \A k \in 1 .. PoolSize : postLog[k] = <<k - 1, k>>
  /\ postLog[PoolSize + 1][2] = PoolSize + 1
  /\ IdleWorkers(pools[1]) = {}
  /\ pools[1].queue = <<>>

\* C34: the payload that settles a task's promise is the reply produced for
\* that very task: a promise is resolved with the message whose taskId is
\* its task's, and rejected with the error event of the worker that held
\* its task, for every interleaving of worker messages and error events.
PayloadIsOwnReply ==
  \A t \in 1 .. MaxTasks :
     payloads[t] # NoData =>
       /\ settleCalls[t] = 1
       /\ payloads[t].how = "resolve" =>
            /\ payloads[t].value.taskId = PoolTask(t).taskId
            /\ payloads[t].value.type \in {"result", "error"}
       /\ payloads[t].how = "reject" => payloads[t].value = [type |-> "ErrorEvent"]

\* C34 witness: the second task was answered before the first, the task
\* that waited in the queue ran on the freed worker, and the three promises
\* were settled by an error event, an error message and a result.
SettledOutOfOrder ==
  /\ pools[1].workers = PoolSize
  /\ Len(postLog) = MaxTasks
  /\ postLog[MaxTasks] = <<1, MaxTasks>>
  /\ \A t \in 1 .. MaxTasks : payloads[t] # NoData
  /\ payloads[1].how = "reject"
  /\ payloads[2].how = "resolve" /\ payloads[2].value.type = "error"
  /\ payloads[MaxTasks].how = "resolve" /\ payloads[MaxTasks].value.type = "result"

(***************************************************************************)
(* PlanQueue.generate.  A position is given by what generate reads of it:  *)
(* the sequence of its legal root moves, each with the number of legal     *)
(* replies to it (pos[i] replies to root move i).  The position reached by *)
(* a sequence of moves stands for its FEN, the move's place in the move    *)
(* list for its SAN.                                                       *)
(***************************************************************************)
Min(a, b) == IF a < b THEN a ELSE b
Max(a, b) == IF a > b THEN a ELSE b

\* Math.floor(a / b) in the place of Math.ceil(a / b)
Floor(a, b) == a \div b

\* Math.ceil(a / b) for integers a and b > 0
Ceil(a, b) == IF a >= 0 THEN (a + b - 1) \div b ELSE -((-a) \div b)

\* Array.prototype.slice(0, n)
Slice0(arr, n) ==
  LET end == IF n < 0 THEN Max(Len(arr) + n, 0) ELSE Min(n, Len(arr))
  IN  SubSeq(arr, 1, end)

\* slice(-n): a slice that keeps the last n elements instead of the first n
SliceLast(arr, n) ==
  LET m == Min(Max(n, 0), Len(arr))
  IN  SubSeq(arr, Len(arr) - m + 1, Len(arr))

RootSan(i)     == <<i>>
ReplySan(i, j) == <<i, j>>
Replies(pos, i) == [j \in 1 .. pos[i] |-> j]

RootPlan(pos, maxDepth) ==
  [fen |-> <<>>, depth |-> maxDepth, multiPV |-> Min(8, Len(pos)),
   taskId |-> <<"root", 0>>]

Level1Plan(pos, i, id, maxDepth) ==
  [fen |-> <<i>>, depth |-> Max(1, maxDepth - 1), multiPV |-> Min(4, pos[i]),
   taskId |-> <<"l1", id>>, rootMove |-> RootSan(i), moves |-> <<RootSan(i)>>]

Level2Plan(pos, i, j, id, maxDepth) ==
  [fen |-> <<i, j>>, depth |-> Max(1, maxDepth - 2), multiPV |-> 1,
   taskId |-> <<"l2", id>>, rootMove |-> RootSan(i),
   moves |-> <<RootSan(i), ReplySan(i, j)>>]

\* the replies searched at level 2 for one root move:
\* replies.slice(0, Math.ceil((maxPlans - tasks.length) / rootMoves.length))
ReplySlice_last(replies, tasks, maxPlans, nRoot) ==
  SliceLast(replies, Ceil(maxPlans - Len(tasks), nRoot))

ReplySlice(replies, tasks, maxPlans, nRoot) ==
  Slice0(replies, Ceil(maxPlans - Len(tasks), nRoot))

\* the loops' `if (tasks.length >= maxPlans) break`
BudgetSpent_never(tasks, maxPlans) == FALSE
BudgetSpent(tasks, maxPlans) == Len(tasks) >= maxPlans

\* for (const rp of replies.slice(...)): st = [tasks, id]
RECURSIVE ReplyLoop(_, _, _, _, _, _)
ReplyLoop(st, pos, i, rps, maxPlans, maxDepth) ==
  IF rps = <<>> \/ BudgetSpent(st.tasks, maxPlans) THEN st
  ELSE ReplyLoop([tasks |-> Append(st.tasks,
                               Level2Plan(pos, i, Head(rps), st.id, maxDepth)),
                  id |-> st.id + 1],
                 pos, i, Tail(rps), maxPlans, maxDepth)

\* for (const rm of rootMoves), from root move i on
RECURSIVE RootLoop(_, _, _, _, _)
RootLoop(st, pos, i, maxPlans, maxDepth) ==
  IF i > Len(pos) \/ BudgetSpent(st.tasks, maxPlans) THEN st
  ELSE LET l1 == [tasks |-> Append(st.tasks, Level1Plan(pos, i, st.id, maxDepth)),
                  id |-> st.id + 1]
           rps == ReplySlice(Replies(pos, i), l1.tasks, maxPlans, Len(pos))
       IN  RootLoop(ReplyLoop(l1, pos, i, rps, maxPlans, maxDepth),
                    pos, i + 1, maxPlans, maxDepth)

generate(pos, maxPlans, maxDepth) ==
  IF Len(pos) = 0 THEN <<>>
  ELSE RootLoop([tasks |-> <<RootPlan(pos, maxDepth)>>, id |-> 1],
                pos, 1, maxPlans, maxDepth).tasks

(***************************************************************************)
(* Plan driver: generate applied to every small position.                  *)
(***************************************************************************)
RECURSIVE SeqsUpTo(_, _)
SeqsUpTo(S, n) ==
  IF n = 0 THEN {<<>>}
  ELSE LET T == SeqsUpTo(S, n - 1)
       IN  T \cup {Append(s, x) : s \in {t \in T : Len(t) = n - 1}, x \in S}

Positions == SeqsUpTo(0 .. MaxReplies, MaxRootMoves)

\* the starting position: 20 legal moves, 20 legal replies to each
StartPosition == [i \in 1 .. 20 |-> 20]

RECURSIVE SumSeq(_)
SumSeq(s) == IF s = <<>> THEN 0 ELSE Head(s) + SumSeq(Tail(s))

InitPlan ==
  /\ planIn \in [pos : Positions, maxPlans : 1 .. MaxPlans, maxDepth : 1 .. MaxPlanDepth]
  /\ planOut = <<>>
  /\ planPc = "call"
  /\ PoolIdle /\ TTIdle /\ CoordIdle /\ EngineIdle

PlanGenerate ==
  /\ planPc = "call"
  /\ planOut' = generate(planIn.pos, planIn.maxPlans, planIn.maxDepth)
  /\ planPc' = "done"
  /\ UNCHANGED <<planIn, poolVars, ttVars, coordVars, engineVars>>

NextPlan == PlanGenerate

SpecPlan == InitPlan /\ [][NextPlan]_vars

FullFanOut(pos) == 1 + Len(pos) + SumSeq(pos)

Level(t) == t.taskId[1]

\* C8 as claimed: root first, then all level-1 tasks, then all level-2 tasks.
GenerateLevelOrder ==
  planPc = "done" =>
    \A m, n \in DOMAIN planOut :
      m < n => <<Level(planOut[m]), Level(planOut[n])>> \in
                 {<<"root", "l1">>, <<"root", "l2">>, <<"l1", "l1">>,
                  <<"l1", "l2">>, <<"l2", "l2">>}

\* C8 amended: the first task is "root" and the only root task; then, for
\* each root move in enumeration order, comes its level-1 task immediately
\* followed by its own level-2 tasks in reply order (the first replies of
\* the move list), before the level-1 task of the next root move; the
\* numbers in the task ids count the tasks after root.
GenerateInterleaved ==
  planPc = "done" /\ planOut # <<>> =>
    /\ planOut[1].taskId = <<"root", 0>>
    /\ \A n \in DOMAIN planOut :
         /\ n > 1 => Level(planOut[n]) \in {"l1", "l2"} /\ planOut[n].taskId[2] = n - 1
         /\ Level(planOut[n]) = "l1" =>
              \* root moves in order, none skipped
              /\ planOut[n].fen[1] = Cardinality({m \in 1 .. n : Level(planOut[m]) = "l1"})
              /\ planOut[n].moves = <<RootSan(planOut[n].fen[1])>>
         /\ Level(planOut[n]) = "l2" =>
              \* directly behind its own level-1 task or the previous reply
              /\ planOut[n].fen[1] = planOut[n - 1].fen[1]
              /\ planOut[n].fen[2] = IF Level(planOut[n - 1]) = "l1" THEN 1
                                     ELSE planOut[n - 1].fen[2] + 1
              /\ planOut[n].fen[2] <= planIn.pos[planOut[n].fen[1]]
              /\ planOut[n].rootMove = RootSan(planOut[n].fen[1])

\* C8 witness: a level-2 task of the first root move stands before the
\* level-1 task of the second.
Level2BeforeLevel1 ==
  /\ planPc = "done"
  /\ \E m, n \in DOMAIN planOut :
       m < n /\ Level(planOut[m]) = "l2" /\ Level(planOut[n]) = "l1"

(***************************************************************************)
(* engine.js: the transposition table.  A FEN is the sequence of its       *)
(* character codes; ttTable is the sparse array, a function from the       *)
(* filled slots to their entries.                                          *)
(***************************************************************************)
TT_SIZE  == 1048576
TT_EXACT == 0
TT_LOWER == 1
TT_UPPER == 2
INFINITY == 9999999

Null == [null |-> TRUE]

\* for (i...) h = (h * 31 + fen.charCodeAt(i)) & (TT_SIZE - 1)
RECURSIVE HashFrom(_, _)
HashFrom(h, chars) ==
  IF chars = <<>> THEN h
  ELSE HashFrom((h * 31 + Head(chars)) % TT_SIZE, Tail(chars))

ttKey(fen) == HashFrom(0, fen)

Slot(tbl, k) == IF k \in DOMAIN tbl THEN tbl[k] ELSE Null

\* a probe that does not compare the stored FEN with the probed one
ttGet_noFenCheck(tbl, fen, depth, alpha, beta) ==
  LET e == Slot(tbl, ttKey(fen))
  IN  IF e = Null THEN Null
      ELSE IF e.depth < depth THEN Null
      ELSE IF e.flag = TT_EXACT THEN [score |-> e.score]
      ELSE IF e.flag = TT_LOWER /\ e.score >= beta THEN [score |-> e.score]
      ELSE IF e.flag = TT_UPPER /\ e.score <= alpha THEN [score |-> e.score]
      ELSE Null

ttGet(tbl, fen, depth, alpha, beta) ==
  LET e == Slot(tbl, ttKey(fen))
  IN  IF e = Null THEN Null
      ELSE IF e.fen # fen \/ e.depth < depth THEN Null
      ELSE IF e.flag = TT_EXACT THEN [score |-> e.score]
      ELSE IF e.flag = TT_LOWER /\ e.score >= beta THEN [score |-> e.score]
      ELSE IF e.flag = TT_UPPER /\ e.score <= alpha THEN [score |-> e.score]
      ELSE Null

StoreEntry(tbl, k, e) == [x \in DOMAIN tbl \cup {k} |-> IF x = k THEN e ELSE tbl[x]]

\* a store that always replaces
ttSet_always(tbl, fen, depth, score, flag, bestMove) ==
  StoreEntry(tbl, ttKey(fen), [fen |-> fen, depth |-> depth, score |-> score,
                               flag |-> flag, bestMove |-> bestMove])

\* a store that replaces only a strictly shallower entry (e.depth < depth)
ttSet_strict(tbl, fen, depth, score, flag, bestMove) ==
  LET k == ttKey(fen)
      e == Slot(tbl, k)
  IN  IF e = Null \/ e.depth < depth
        THEN StoreEntry(tbl, k, [fen |-> fen, depth |-> depth, score |-> score,
                                 flag |-> flag, bestMove |-> bestMove])
        ELSE tbl

ttSet(tbl, fen, depth, score, flag, bestMove) ==
  LET k == ttKey(fen)
      e == Slot(tbl, k)
  IN  IF e = Null \/ e.depth <= depth
        THEN StoreEntry(tbl, k, [fen |-> fen, depth |-> depth, score |-> score,
                                 flag |-> flag, bestMove |-> bestMove])
        ELSE tbl

(***************************************************************************)
(* Table driver: a caller that stores and probes in any order, one call at *)
(* a time (it takes the result of a probe before its next call).  The      *)
(* three keys are the strings "b1", "aP" and "a1"; the first two hash to   *)
(* the same slot.                                                          *)
(***************************************************************************)
Fens     == {<<98, 49>>, <<97, 80>>, <<97, 49>>}
TTScores == {-50, 50}
TTFlags  == {TT_EXACT, TT_LOWER, TT_UPPER}
TTBounds == {-INFINITY, 0, INFINITY}
TTDepths == 0 .. MaxTTDepth

InitTT ==
  /\ ttTable = <<>>
  /\ ttLastSet = NoData
  /\ ttProbe = NoData
  /\ PoolIdle /\ PlanIdle /\ CoordIdle /\ EngineIdle

TtSet ==
  \E fen \in Fens, depth \in TTDepths, score \in TTScores, flag \in TTFlags :
    LET e == Slot(ttTable, ttKey(fen))
    IN  /\ ttProbe = NoData
        /\ ttTable' = ttSet(ttTable, fen, depth, score, flag, "e2e4")
        /\ ttLastSet' = [fen |-> fen, depth |-> depth, score |-> score, flag |-> flag,
                         slotWasEmpty |-> (e = Null),
                         slotDepth |-> IF e = Null THEN 0 ELSE e.depth]
        /\ UNCHANGED <<ttProbe, poolVars, planVars, coordVars, engineVars>>

TtGet ==
  \E fen \in Fens, depth \in TTDepths, alpha \in TTBounds, beta \in TTBounds :
    /\ ttProbe = NoData
    /\ ttProbe' = [fen |-> fen, depth |-> depth, alpha |-> alpha, beta |-> beta,
                   result |-> ttGet(ttTable, fen, depth, alpha, beta)]
    /\ UNCHANGED <<ttTable, ttLastSet, poolVars, planVars, coordVars, engineVars>>

\* the caller has taken the probe's result
TtReturn ==
  /\ ttProbe # NoData
  /\ ttProbe' = NoData
  /\ UNCHANGED <<ttTable, ttLastSet, poolVars, planVars, coordVars, engineVars>>

NextTT == TtSet \/ TtGet \/ TtReturn

SpecTT == InitTT /\ [][NextTT]_vars

\* a full-window probe of the key just stored, at a depth it covers
ProbesLastStore ==
  /\ ttLastSet # NoData
  /\ ttProbe # NoData
  /\ ttLastSet.flag = TT_EXACT
  /\ ttProbe.fen = ttLastSet.fen
  /\ ttProbe.depth <= ttLastSet.depth
  /\ ttProbe.alpha = -INFINITY
  /\ ttProbe.beta = INFINITY

\* C10 as claimed: after ttSet(fen, d, score, EXACT, move), whatever the
\* table held before, ttGet(fen, d', -INFINITY, INFINITY) returns score for
\* every d' <= d.
ProbeReturnsStoredScore ==
  ProbesLastStore => ttProbe.result = [score |-> ttLastSet.score]

\* C10 amended: the same, provided the slot of fen was empty or held an
\* entry of depth <= d when ttSet was called.
ProbeReturnsStoredScoreIfReplaced ==
  ProbesLastStore /\ (ttLastSet.slotWasEmpty \/ ttLastSet.slotDepth <= ttLastSet.depth)
    => ttProbe.result = [score |-> ttLastSet.score]

\* C10 witness: the store replaced an entry of the same depth, and a
\* shallower full-window probe returned the stored score.
ProbeHitAfterReplace ==
  /\ ProbesLastStore
  /\ ~ttLastSet.slotWasEmpty
  /\ ttLastSet.slotDepth = ttLastSet.depth
  /\ ttProbe.depth < ttLastSet.depth
  /\ ttProbe.result = [score |-> ttLastSet.score]

\* C11: ttSet overwrites the slot of fen iff the slot is empty or holds an
\* entry of depth <= the new depth, and otherwise leaves the whole table
\* unchanged; so the depth held in a slot never decreases and a filled slot
\* is never emptied.
StoreIffNotShallower ==
  [][(ttProbe = NoData /\ ttProbe' = NoData /\ ttLastSet' # NoData) =>
       LET c   == ttLastSet'
           k   == ttKey(c.fen)
           old == Slot(ttTable, k)
       IN  /\ (old = Null \/ c.depth >= old.depth) =>
                /\ DOMAIN ttTable' = DOMAIN ttTable \cup {k}
                /\ ttTable'[k].fen = c.fen /\ ttTable'[k].depth = c.depth
                /\ ttTable'[k].score = c.score /\ ttTable'[k].flag = c.flag
                /\ \A x \in DOMAIN ttTable \ {k} : ttTable'[x] = ttTable[x]
           /\ (old # Null /\ c.depth < old.depth) => ttTable' = ttTable
           /\ \A x \in DOMAIN ttTable :
                x \in DOMAIN ttTable' /\ ttTable'[x].depth >= ttTable[x].depth]_vars

\* C11 witness: a store of a shallower entry found the slot taken by a
\* deeper one of another FEN and was dropped.
StoreDropped ==
  /\ ttLastSet # NoData
  /\ ~ttLastSet.slotWasEmpty
  /\ ttLastSet.slotDepth > ttLastSet.depth
  /\ Slot(ttTable, ttKey(ttLastSet.fen)).fen # ttLastSet.fen

\* what ttGet must find in the slot to answer the probe
ProbeEntryMatches ==
  LET e == Slot(ttTable, ttKey(ttProbe.fen))
  IN  /\ e # Null
      /\ e.fen = ttProbe.fen
      /\ e.depth >= ttProbe.depth
      /\ \/ e.flag = TT_EXACT
         \/ e.flag = TT_LOWER /\ e.score >= ttProbe.beta
         \/ e.flag = TT_UPPER /\ e.score <= ttProbe.alpha

\* C12: ttGet returns a score only when the slot holds an entry of the same
\* FEN, of depth >= the probed depth, whose flag is EXACT, or LOWER with
\* score >= beta, or UPPER with score <= alpha, and then it is that entry's
\* score; in every other case, a colliding FEN included, it returns null.
ProbeHitsOnlyMatchingEntry ==
  ttProbe # NoData =>
    IF ProbeEntryMatches
      THEN ttProbe.result = [score |-> Slot(ttTable, ttKey(ttProbe.fen)).score]
      ELSE ttProbe.result = Null

\* C12 witness: the probed FEN hashes to a slot that holds a deep enough
\* EXACT entry of another FEN, and the probe missed.
ProbeMissOnCollision ==
  /\ ttProbe # NoData
  /\ LET e == Slot(ttTable, ttKey(ttProbe.fen))
     IN  /\ e # Null
         /\ e.fen # ttProbe.fen
         /\ e.depth >= ttProbe.depth
         /\ e.flag = TT_EXACT
  /\ ttProbe.result = Null

(***************************************************************************)
(* analysis.js: AnalysisCoordinator._buildLines.  res is this._results, the *)
(* Map's entries {task, result} in insertion order; a Line is a record      *)
(* with its colour as the index into LINE_COLORS.                          *)
(***************************************************************************)
NCOLORS == 32

\* a sparse array or object: the value at key k, or 0 (undefined)
At(m, k) == IF k \in DOMAIN m THEN m[k] ELSE 0

\* Array.prototype.sort with the comparator (a, b) => score(b) - score(a),
\* on pairs <<score, element>>: stable, the higher score first.  Insert x
\* behind the elements that do not score lower.
RECURSIVE InsertDesc(_, _)
InsertDesc(sorted, x) ==
  IF sorted = <<>> THEN <<x>>
  ELSE IF Head(sorted)[1] >= x[1]
         THEN <<Head(sorted)>> \o InsertDesc(Tail(sorted), x)
         ELSE <<x>> \o sorted

\* a sort that leaves the array as it is
SortDesc_asIs(done, todo) == done \o todo

RECURSIVE SortDesc(_, _)
SortDesc(done, todo) ==
  IF todo = <<>> THEN done
  ELSE SortDesc(InsertDesc(done, Head(todo)), Tail(todo))

\* the entry of lineMap for root move rm: its index, or 0
LineIndex(lineMap, rm) ==
  IF \E i \in DOMAIN lineMap : lineMap[i].rootMove = rm
    THEN CHOOSE i \in DOMAIN lineMap : lineMap[i].rootMove = rm
    ELSE 0

\* Map.prototype.set on lineMap: a new key goes last, a known key keeps its place
LineSet(lineMap, rm, line) ==
  IF LineIndex(lineMap, rm) = 0
    THEN Append(lineMap, line)
    ELSE [lineMap EXCEPT ![LineIndex(lineMap, rm)] = line]

\* "Seed from root result"
RECURSIVE SeedLines(_, _, _)
SeedLines(rootLines, st, maxDepth) ==
  IF rootLines = <<>> THEN st
  ELSE LET rl == Head(rootLines)
           san == rl.move
           line == [rootMove |-> san, score |-> rl.score, moves |-> <<san>>,
                    color |-> st.colorIdx % NCOLORS, depth |-> maxDepth]
       IN  SeedLines(Tail(rootLines),
                     [st EXCEPT !.lineMap = LineSet(@, san, line), !.colorIdx = @ + 1],
                     maxDepth)

\* result?.lines || []: an error payload carries no lines
LinesOf(result) == IF "lines" \in DOMAIN result THEN result.lines ELSE <<>>

\* task.taskId === 'root'
IsRoot(task) == task.taskId = <<"root", 0>>

\* the score a line gets from a level-1 or level-2 result
taskScore(task, best) == IF Len(task.moves) = 1 THEN best.score ELSE -best.score

\* an extension that keeps the moves after the root move only
ExtendMoves_afterRoot(existing, task, continuation) ==
  Append(Tail(task.moves), continuation)

\* an extension that appends the continuation to the moves the line has
ExtendMoves_appendToExisting(existing, task, continuation) ==
  Append(existing.moves, continuation)

\* "Extend the line with deeper continuation":
\* existing.moves = task.moves.concat(continuation)
ExtendMoves(existing, task, continuation) == Append(task.moves, continuation)

\* "Enrich with level-1 and level-2 results"
RECURSIVE Enrich(_, _)
Enrich(entries, st) ==
  IF entries = <<>> THEN st
  ELSE LET task == Head(entries).task
           result == Head(entries).result
           rm == task.rootMove
           best == LinesOf(result)[1]
           idx == LineIndex(st.lineMap, rm)
           existing == st.lineMap[idx]
           counted == [st EXCEPT !.planCount = MapSet(@, rm, At(st.planCount, rm) + 1)]
       IN  IF IsRoot(task) \/ LinesOf(result) = <<>> THEN Enrich(Tail(entries), st)
           ELSE IF idx = 0
             THEN Enrich(Tail(entries),
                    [counted EXCEPT
                       !.lineMap = Append(@, [rootMove |-> rm,
                                              score |-> taskScore(task, best),
                                              moves |-> Append(task.moves, best.move),
                                              color |-> st.colorIdx % NCOLORS,
                                              depth |-> task.depth]),
                       !.colorIdx = @ + 1])
           ELSE IF /\ Len(task.moves) > Len(existing.moves)
                   /\ \A i \in DOMAIN existing.moves : existing.moves[i] # best.move
             THEN Enrich(Tail(entries),
                    [counted EXCEPT !.lineMap[idx].moves =
                                      ExtendMoves(existing, task, best.move)])
           ELSE Enrich(Tail(entries), counted)

\* this._results.get('root')?.result?.lines || []
RootLines(res) ==
  IF \E i \in DOMAIN res : IsRoot(res[i].task)
    THEN LinesOf(res[CHOOSE i \in DOMAIN res : IsRoot(res[i].task)].result)
    ELSE <<>>

\* _buildLines()
_buildLines(res, maxDepth) ==
  LET seeded == SeedLines(RootLines(res), [lineMap |-> <<>>, colorIdx |-> 0], maxDepth)
      st == Enrich(res, [lineMap |-> seeded.lineMap, colorIdx |-> seeded.colorIdx,
                         planCount |-> <<>>])
      withPlans == [i \in DOMAIN st.lineMap |->
                      [rootMove |-> st.lineMap[i].rootMove,
                       score |-> st.lineMap[i].score,
                       moves |-> st.lineMap[i].moves,
                       color |-> st.lineMap[i].color,
                       depth |-> st.lineMap[i].depth,
                       plans |-> IF At(st.planCount, st.lineMap[i].rootMove) = 0 THEN 1
                                 ELSE st.planCount[st.lineMap[i].rootMove]]]
      scored == [i \in DOMAIN withPlans |-> <<withPlans[i].score, withPlans[i]>>]
      sorted == SortDesc(<<>>, scored)
  IN  [i \in DOMAIN sorted |-> sorted[i][2]]

(***************************************************************************)
(* AnalysisCoordinator.  coord holds the object's fields; pool is the run  *)
(* number whose WorkerPool this.pool points to, 0 for null.  The run       *)
(* number of a start call is the number of start calls made up to it; the  *)
(* closures of that call (its tasks, its promises) carry it.  The          *)
(* operations work on s = [coord, emission, watch] and return it changed.  *)
(* Timing (performance.now, nps, elapsed) is left out of the stats.        *)
(***************************************************************************)
\* The node count the search of a task reports: one more than the plies
\* that lead to the task's position (1 for root, 2 and 3 for the levels).
SearchNodes(task) == 1 + Len(task.fen)

AnalysisCoordinator(workerCount, maxPlans, maxDepth) ==
  [workerCount |-> workerCount, maxPlans |-> maxPlans, maxDepth |-> maxDepth,
   pool |-> 0, running |-> FALSE, _results |-> EmptyMap, _totalNodes |-> 0]

\* result.nodes || 0
NodesOr0(result) == IF "nodes" \in DOMAIN result THEN result.nodes ELSE 0

\* whether the run that dispatched a job has been stopped since
Stopped(s, run) == s.coord.pool # run

\* this._results as _buildLines iterates it: the entries in insertion order
\* (ord is the place of an entry in the Map)
Entries(m) ==
  [i \in 1 .. Cardinality(DOMAIN m) |-> m[CHOOSE id \in DOMAIN m : m[id].ord = i]]

\* what onUpdate receives; `by` = [run, idx] is the callback that calls
\* _emit: the reaction to task idx of that run, idx 0 for the end of start
Update(s, tasks, final, by) ==
  [s EXCEPT
     !.emission = [lines |-> _buildLines(Entries(s.coord._results), s.coord.maxDepth),
                   nodes |-> s.coord._totalNodes, tasks |-> tasks,
                   total |-> s.coord.maxPlans, final |-> final,
                   stale |-> Stopped(s, by.run)],
     !.watch.emitted = IF by.run = s.watch.run THEN @ \cup {by.idx} ELSE @,
     !.watch.finals = IF final THEN @ + 1 ELSE @]

\* an _emit whose stats count only the results that carry lines and nodes
_emit_countResults(s, final, by) ==
  Update(s, Cardinality({id \in DOMAIN s.coord._results :
                           s.coord._results[id].result.type = "result"}), final, by)

\* _emit(final): onUpdate(lines, stats)
_emit(s, final, by) ==
  Update(s, Cardinality(DOMAIN s.coord._results), final, by)

\* a reaction that calls _emit before it adds the nodes of the result
OnFulfilled_emitFirst(s, job, result) ==
  IF ~s.coord.running THEN s
  ELSE LET t == [s EXCEPT
                   !.coord._results =
                      MapSet(@, job.task.taskId,
                             [task |-> job.task, result |-> result,
                              run |-> job.run, stale |-> Stopped(s, job.run),
                              ord |-> Cardinality(DOMAIN @) + 1])]
           u == _emit(t, FALSE, [run |-> job.run, idx |-> job.idx])
       IN  [u EXCEPT !.coord._totalNodes = @ + NodesOr0(result)]

\* start, the reaction to a fulfilled dispatch promise:
\* .then(result => { if (!this.running) return; ... this._emit(); })
OnFulfilled(s, job, result) ==
  IF ~s.coord.running THEN s
  ELSE LET t == [s EXCEPT
                   !.coord._results =
                      MapSet(@, job.task.taskId,
                             [task |-> job.task, result |-> result,
                              run |-> job.run, stale |-> Stopped(s, job.run),
                              ord |-> IF job.task.taskId \in DOMAIN @
                                        THEN @[job.task.taskId].ord
                                        ELSE Cardinality(DOMAIN @) + 1]),
                   !.coord._totalNodes = @ + NodesOr0(result)]
       IN  _emit(t, FALSE, [run |-> job.run, idx |-> job.idx])

\* a continuation that reports the end of the run as an ordinary update
AfterAllSettled_notFinal(s, run) ==
  LET t == [s EXCEPT !.watch.ended = (run = s.watch.run) \/ @]
  IN  IF t.coord.running
        THEN _emit([t EXCEPT !.coord.running = FALSE], FALSE, [run |-> run, idx |-> 0])
        ELSE t

\* start, after `await Promise.allSettled(promises)`
AfterAllSettled(s, run) ==
  LET t == [s EXCEPT !.watch.ended = (run = s.watch.run) \/ @]
  IN  IF t.coord.running
        THEN _emit([t EXCEPT !.coord.running = FALSE], TRUE, [run |-> run, idx |-> 0])
        ELSE t

\* stop(), on the coordinator and on the pools
stopCoord(c) == [c EXCEPT !.running = FALSE, !.pool = 0]
stopPools(c, ps) == IF c.pool # 0 THEN [ps EXCEPT ![c.pool] = terminate(@)] ELSE ps

\* tasks.map(task => this.pool.dispatch(task)...): st = [pool, box]
RECURSIVE DispatchAll(_, _, _, _)
DispatchAll(st, run, tasks, idx) ==
  IF idx > Len(tasks) THEN st
  ELSE LET d == dispatch(st.pool, [run |-> run, idx |-> idx, task |-> tasks[idx]])
       IN  DispatchAll([pool |-> d.pool, box |-> Deliver(st.box, d.posts)],
                       run, tasks, idx + 1)

(***************************************************************************)
(* Coordinator driver: the page calls start(fen) and stop() at any time;   *)
(* workers answer.  A worker of a terminated pool may have posted its      *)
(* reply before it was terminated: the reply of a job in flight at         *)
(* terminate() may still be delivered, or never.                           *)
(***************************************************************************)
CoordPositions == {<<>>, <<1, 1>>}

\* What searchRoot may return for a task: min(multiPV, legal moves) lines,
\* best first, on distinct moves.  The moves of the task's position are
\* named as PlanQueue names them; the position of a level-2 task may have
\* no legal move.
LineScores == {-20, 30}

SearchMoves(task) ==
  IF IsRoot(task) THEN {RootSan(i) : i \in 1 .. task.multiPV}
  ELSE IF Len(task.fen) = 1 THEN {ReplySan(task.fen[1], j) : j \in 1 .. task.multiPV}
  ELSE {Append(task.fen, 1)}

SearchLines(task) ==
  {l \in UNION {[1 .. n -> [move : SearchMoves(task), score : LineScores]] :
                  n \in {task.multiPV} \cup (IF Len(task.fen) = 2 THEN {0} ELSE {})} :
     /\ \A i, j \in DOMAIN l : i < j => l[i].move # l[j].move /\ l[i].score >= l[j].score}

NewWatch(run, n) ==
  [run |-> run, nTasks |-> n, fulfilled |-> {}, rejected |-> {}, emitted |-> {},
   finals |-> 0, ended |-> FALSE, late |-> FALSE]

InitCoord ==
  /\ \E wc \in {1, PoolSize}, mp \in {1, MaxCoordPlans} :
       coord = AnalysisCoordinator(wc, mp, MaxPlanDepth)
  /\ pools = <<>>
  /\ inbox = <<>>
  /\ pending = <<>>
  /\ emission = NoData
  /\ watch = NewWatch(0, 0)
  /\ nDispatched = 0 /\ postLog = <<>> /\ settleCalls = <<>> /\ payloads = <<>>
  /\ PlanIdle /\ TTIdle /\ EngineIdle

\* start(fen), on one of the positions, while fewer than maxRuns calls of
\* it were made
StartOn(positions, maxRuns) ==
  \E pos \in positions :
    /\ Len(pools) < maxRuns
    /\ LET run   == Len(pools) + 1
           tasks == generate(pos, coord.maxPlans, coord.maxDepth)
           c     == [stopCoord(coord) EXCEPT !.running = TRUE, !._results = EmptyMap,
                                             !._totalNodes = 0, !.pool = run]
           st    == DispatchAll([pool |-> WorkerPool(coord.workerCount),
                                 box |-> EmptyInbox(coord.workerCount)],
                                run, tasks, 1)
           s     == [coord |-> c, emission |-> NoData,
                     watch |-> NewWatch(run, Len(tasks))]
           end   == IF tasks = <<>> THEN AfterAllSettled(s, run) ELSE s
       IN  /\ pools' = Append(stopPools(coord, pools), st.pool)
           /\ inbox' = Append(inbox, st.box)
           /\ pending' = Append(pending, Len(tasks))
           /\ coord' = end.coord
           /\ emission' = end.emission
           /\ watch' = end.watch
    /\ UNCHANGED <<driverVars, planVars, ttVars, engineVars>>

Start == StartOn(CoordPositions, MaxRuns)

Stop ==
  /\ Len(pools) > 0
  /\ coord.running \/ coord.pool # 0
  /\ pools' = stopPools(coord, pools)
  /\ coord' = stopCoord(coord)
  /\ UNCHANGED <<inbox, pending, emission, watch, driverVars, planVars, ttVars, engineVars>>

\* The main thread handles one event of worker i of run r's pool; ev is
\* what the pool's handler returned.  Then the promise reactions run.
\* (ev and the outcome of the reactions are bound as values, each computed
\* once.)
CoordEvent(r, i, handled) ==
 \E ev \in {handled} :
  LET s0 == [coord |-> coord, emission |-> emission,
             watch |-> [watch EXCEPT !.late = @ \/ pools[r].workers = 0]]
      job == IF ev.settled = <<>> THEN NoJob ELSE ev.settled[1].job
      how == IF ev.settled = <<>> THEN "none" ELSE ev.settled[1].how
      left == IF job = NoJob THEN pending[r] ELSE pending[r] - 1
      s1 == IF job # NoJob /\ job.run = watch.run
              THEN [s0 EXCEPT !.watch.fulfilled = IF how = "resolve" THEN @ \cup {job.idx} ELSE @,
                              !.watch.rejected  = IF how = "reject"  THEN @ \cup {job.idx} ELSE @]
              ELSE s0
      s2 == IF how = "resolve" THEN OnFulfilled(s1, job, ev.settled[1].value) ELSE s1
      s3 == IF job # NoJob /\ left = 0 THEN AfterAllSettled(s2, r) ELSE s2
  IN  \E s \in {s3} :
        /\ pools' = [pools EXCEPT ![r] = ev.pool]
        /\ inbox' = [inbox EXCEPT ![r] = Deliver([@ EXCEPT ![i] = Tail(@)], ev.posts)]
        /\ pending' = [pending EXCEPT ![r] = left]
        /\ coord' = s.coord
        /\ emission' = s.emission
        /\ watch' = s.watch
        /\ UNCHANGED <<driverVars, planVars, ttVars, engineVars>>

\* a worker answers its task with a reply of self.onmessage; withLines: a
\* result reply carries lines searchRoot may return, else none
WorkerMessage(withLines) ==
  \E r \in DOMAIN pools :
    \E i \in DOMAIN inbox[r] :
      /\ inbox[r][i] # <<>>
      /\ LET task == Head(inbox[r][i]).task
         IN  \E throws \in BOOLEAN,
                lines \in (IF withLines THEN SearchLines(task) ELSE {<<>>}) :
               CoordEvent(r, i, _onMessage(pools[r], i,
                            onmessage(task, throws, lines, SearchNodes(task))))

CoordWorkerMessage == WorkerMessage(FALSE)

CoordWorkerError ==
  \E r \in DOMAIN pools :
    \E i \in DOMAIN inbox[r] :
      /\ inbox[r][i] # <<>>
      /\ CoordEvent(r, i, _onError(pools[r], i, [type |-> "ErrorEvent"]))

NextCoord == Start \/ Stop \/ CoordWorkerMessage \/ CoordWorkerError

SpecCoord == InitCoord /\ [][NextCoord]_vars

\* Every worker eventually answers a task posted to it, and a reply that a
\* terminated worker had posted is eventually delivered or dropped.
FairSpecCoord == SpecCoord /\ WF_vars(CoordWorkerMessage \/ CoordWorkerError)

(***************************************************************************)
(* One run of the coordinator, with the lines of the replies: start(fen)   *)
(* is called once on a position with two root moves and one reply to each, *)
(* and the workers answer, each task with a result, with an error payload  *)
(* or with an error event.                                                 *)
(***************************************************************************)
MaxRunPlans == 4   \* largest maxPlans option of the coordinator of the run
RunPositions == {<<1, 1>>}

InitRun ==
  /\ \E wc \in {1, PoolSize}, mp \in {1, MaxRunPlans} :
       coord = AnalysisCoordinator(wc, mp, MaxPlanDepth)
  /\ pools = <<>>
  /\ inbox = <<>>
  /\ pending = <<>>
  /\ emission = NoData
  /\ watch = NewWatch(0, 0)
  /\ nDispatched = 0 /\ postLog = <<>> /\ settleCalls = <<>> /\ payloads = <<>>
  /\ PlanIdle /\ TTIdle /\ EngineIdle

RunStart == StartOn(RunPositions, 1)

RunWorkerMessage == WorkerMessage(TRUE)

RunWorkerError == CoordWorkerError

NextRun == RunStart \/ RunWorkerMessage \/ RunWorkerError

SpecRun == InitRun /\ [][NextRun]_vars

(***************************************************************************)
(* Observations on the run.                                                *)
(***************************************************************************)
\* the entries of this._results that carry a result of searchRoot
ResultEntries == SelectSeq(Entries(coord._results), LAMBDA e : e.result.type = "result")

\* the line has a result to come from: a line of the root result on its
\* root move, or a level-1 or level-2 result with lines for its root move
LineHasSource(line) ==
  \E i \in DOMAIN ResultEntries :
    LET e == ResultEntries[i]
    IN  /\ e.result.lines # <<>>
        /\ IF IsRoot(e.task)
             THEN \E j \in DOMAIN e.result.lines : e.result.lines[j].move = line.rootMove
             ELSE e.task.rootMove = line.rootMove

\* C21: a task that fails, by an error payload or by an error event of its
\* worker, contributes no line to any emission: the lines are those built
\* from the results alone, each with a result as its source.  The run goes
\* on: a queued task waits only while every worker is busy, an unsettled
\* task is with a worker, and once every task is settled, failed or not, the
\* final emission has taken place.
FailedTaskNoLineRunGoesOn ==
  watch.run = 1 =>
    /\ emission # NoData =>
         /\ emission.lines = _buildLines(ResultEntries, coord.maxDepth)
         /\ \A i \in DOMAIN emission.lines : LineHasSource(emission.lines[i])
    /\ pools[1].queue # <<>> => \A i \in 0 .. pools[1].workers - 1 : i \in DOMAIN pools[1].active
    /\ pending[1] > 0 => \E i \in DOMAIN inbox[1] : inbox[1][i] # <<>>
    /\ pending[1] = 0 =>
         /\ emission # NoData /\ emission.final
         /\ watch.fulfilled \cup watch.rejected = 1 .. watch.nTasks

\* the first task of a one-worker run failed by an error event, another by
\* an error payload, and the final emission carries a line
FinalLinesAfterFailures ==
  /\ watch.run = 1
  /\ coord.workerCount = 1
  /\ emission # NoData
  /\ emission.final
  /\ 1 \in watch.rejected
  /\ \E id \in DOMAIN coord._results : coord._results[id].result.type = "error"
  /\ emission.lines # <<>>

\* C23: in every emission the lines are in non-increasing order of score and
\* no two lines have the same root move.
EmissionSortedOnePerRootMove ==
  emission # NoData =>
    \A i, j \in DOMAIN emission.lines :
      i < j => /\ emission.lines[i].score >= emission.lines[j].score
               /\ emission.lines[i].rootMove # emission.lines[j].rootMove

\* an emission of two lines of different scores, the better one on the
\* second root move, one of them supported by its level-1 and its level-2
\* result as well as by the root result
TwoLinesSecondMoveFirst ==
  /\ emission # NoData
  /\ Len(emission.lines) = 2
  /\ emission.lines[1].score > emission.lines[2].score
  /\ emission.lines[1].rootMove = RootSan(2)
  /\ emission.lines[2].plans = 2
  /\ <<"root", 0>> \in DOMAIN coord._results
  /\ LinesOf(coord._results[<<"root", 0>>].result) # <<>>

\* C36: in every emission every Line has a non-empty move list whose first
\* element is the Line's own rootMove, whichever task created the Line and
\* whichever task later extended it.
LineStartsWithRootMove ==
  emission # NoData =>
    \A i \in DOMAIN emission.lines :
      /\ emission.lines[i].moves # <<>>
      /\ emission.lines[i].moves[1] = emission.lines[i].rootMove

\* C36 witness: the root result seeded a line for each of the two root
\* moves, and the level-2 result has extended one of them to three moves
SeededLineExtended ==
  /\ emission # NoData
  /\ <<"root", 0>> \in DOMAIN coord._results
  /\ Len(LinesOf(coord._results[<<"root", 0>>].result)) = 2
  /\ Len(emission.lines) = 2
  /\ \E i \in DOMAIN emission.lines : Len(emission.lines[i].moves) = 3

\* the entries in the order of the task list: the number of a task id is
\* the place of its task in the list
InTaskOrder(entries) ==
  [k \in DOMAIN entries |->
     entries[CHOOSE i \in DOMAIN entries :
               Cardinality({j \in DOMAIN entries :
                              entries[j].task.taskId[2] < entries[i].task.taskId[2]}) = k - 1]]

\* the lines without their colours
Plain(lines) ==
  [i \in DOMAIN lines |->
     [rootMove |-> lines[i].rootMove, score |-> lines[i].score,
      moves |-> lines[i].moves, plans |-> lines[i].plans]]

\* C37 as stated: for a fixed task list and fixed per-task results the
\* lines of the final emission (root moves, scores, move lists and plan
\* counts, colours ignored) are the same for every order in which the tasks
\* complete: they are the lines built from the same results stored in the
\* order of the task list.
FinalLinesOrderIndependent ==
  (emission # NoData /\ emission.final) =>
    Plain(emission.lines) =
      Plain(_buildLines(InTaskOrder(Entries(coord._results)), coord.maxDepth))

\* lineMap when _buildLines has processed the first k entries of the Map
LineMapAfter(k) ==
  LET E == Entries(coord._results)
      seeded == SeedLines(RootLines(E), [lineMap |-> <<>>, colorIdx |-> 0], coord.maxDepth)
  IN  Enrich(SubSeq(E, 1, k), [lineMap |-> seeded.lineMap, colorIdx |-> seeded.colorIdx,
                               planCount |-> <<>>]).lineMap

\* entry k is a non-root result with lines for the root move of the line,
\* its task's move list is strictly longer than the line's, and its best
\* move is not in the line
Extends(k, line) ==
  LET e == Entries(coord._results)[k]
  IN  /\ ~IsRoot(e.task)
      /\ LinesOf(e.result) # <<>>
      /\ e.task.rootMove = line.rootMove
      /\ Len(e.task.moves) > Len(line.moves)
      /\ \A i \in DOMAIN line.moves : line.moves[i] # LinesOf(e.result)[1].move

\* the steps of _buildLines on a line that exists before the step: entry k
\* and the place i of the line in lineMap
StepsOnExistingLines ==
  {ki \in (1 .. Cardinality(DOMAIN coord._results)) \X (1 .. NCOLORS) :
     ki[2] \in DOMAIN LineMapAfter(ki[1] - 1)}

\* the best-move SAN of entry k
Continuation(k) == LinesOf(Entries(coord._results)[k].result)[1].move

\* C40 as stated: when the result extends the line, the line's new move
\* list is its previous move list with the best-move SAN appended; in every
\* other case the line's move list and score are left unchanged.
ExtensionAppendsToLine ==
  \A ki \in StepsOnExistingLines :
    LET before == LineMapAfter(ki[1] - 1)[ki[2]]
        after == LineMapAfter(ki[1])[ki[2]]
    IN  IF Extends(ki[1], before)
          THEN after.moves = Append(before.moves, Continuation(ki[1]))
          ELSE after.moves = before.moves /\ after.score = before.score

\* C40: when the result extends the line, the line's new move list is the
\* task's move list with the best-move SAN appended, of which the previous
\* move list is a proper prefix, and the score is left unchanged; in every
\* other case the line's move list and score are left unchanged.
ExtensionAppendsToTaskMoves ==
  \A ki \in StepsOnExistingLines :
    LET before == LineMapAfter(ki[1] - 1)[ki[2]]
        after == LineMapAfter(ki[1])[ki[2]]
        task == Entries(coord._results)[ki[1]].task
    IN  IF Extends(ki[1], before)
          THEN /\ after.moves = Append(task.moves, Continuation(ki[1]))
               /\ SubSeq(after.moves, 1, Len(before.moves)) = before.moves
               /\ after.score = before.score
          ELSE after.moves = before.moves /\ after.score = before.score

\* C40 witness: the root result seeded the line of root move 1, the level-1
\* result left it as it was and the level-2 result extended it by the reply
\* and its continuation
LineExtendedByLevel2 ==
  /\ emission # NoData
  /\ emission.final
  /\ {<<"root", 0>>, <<"l1", 1>>, <<"l2", 2>>} \subseteq DOMAIN coord._results
  /\ coord._results[<<"root", 0>>].result.type = "result"
  /\ coord._results[<<"l1", 1>>].ord < coord._results[<<"l2", 2>>].ord
  /\ \E i \in DOMAIN emission.lines :
        /\ emission.lines[i].moves = <<RootSan(1), ReplySan(1, 1), <<1, 1, 1>>>>
        /\ emission.lines[i].plans = 2

(***************************************************************************)
(* Observations on the coordinator driver.  watch.run is the current run;  *)
(* fulfilled and rejected are its tasks whose promise the pool resolved    *)
(* with a worker's reply, or rejected with a worker's error event.         *)
(***************************************************************************)
RECURSIVE SumNodes(_, _)
SumNodes(res, ids) ==
  IF ids = {} THEN 0
  ELSE LET id == CHOOSE x \in ids : TRUE
       IN  NodesOr0(res[id].result) + SumNodes(res, ids \ {id})

\* C35: in every emission stats.nodes is the sum of the node counts of
\* exactly the results stored in the result map at that moment, each counted
\* once (an error payload counts 0 nodes), and stats.tasks is the number of
\* stored results.
StatsCountStoredResults ==
  emission # NoData =>
    /\ emission.nodes = SumNodes(coord._results, DOMAIN coord._results)
    /\ emission.tasks = Cardinality(DOMAIN coord._results)
    /\ \A id \in DOMAIN coord._results :
         /\ coord._results[id].task.taskId = id
         /\ coord._results[id].run = watch.run

\* C35 witness: in the second run, after a stop, an emission counts two
\* stored results, one of them an error payload, and the nodes of the other.
SecondRunStatsCounted ==
  /\ watch.run = 2
  /\ emission # NoData
  /\ emission.tasks = 2
  /\ emission.nodes > 0
  /\ \E id \in DOMAIN coord._results : coord._results[id].result.type = "error"
  /\ \E id \in DOMAIN coord._results : coord._results[id].result.type = "result"

\* the pool of run r has been terminated
Terminated(r) == r \in DOMAIN pools /\ pools[r].workers = 0

\* the dispatch promises of run r that are not settled
Unsettled(r) == IF r \in DOMAIN pending THEN pending[r] ELSE 0

\* C38 as stated: if stop() terminates the pool of a run while tasks of
\* the run are queued or in flight, every pending dispatch promise of the
\* run is nevertheless eventually settled, so the start(fen) call of the run
\* gets past its await and its promise resolves.
InterruptedStartResolves ==
  \A r \in 1 .. MaxRuns :
    [](Terminated(r) /\ Unsettled(r) > 0 => <>(Unsettled(r) = 0))

\* C4 as claimed: every run gets exactly one final=true update, so a run
\* that is no longer running has had it.
FinalUpdateInEveryRun ==
  (watch.run > 0 /\ ~coord.running) => watch.finals = 1

\* C4 amended: in one run onUpdate is invoked for every task that completes
\* (by that task's own reaction) and at most once with final=true; the
\* final update is sent exactly when start ends, which a stop() in the
\* middle of the run prevents, and it is the last update of the run.
OneFinalUpdatePerRun ==
  /\ watch.fulfilled \subseteq watch.emitted
  /\ watch.finals <= 1
  /\ watch.ended <=> watch.finals = 1
  /\ watch.finals = 1 => emission # NoData /\ emission.final /\ ~coord.running
  /\ (emission # NoData /\ emission.final) => watch.ended

\* C4 witness: a run of two tasks has ended with its final update.
RunEndedWithFinal ==
  /\ watch.ended
  /\ watch.nTasks >= 2
  /\ watch.fulfilled # {}
  /\ emission.final

\* C5 as claimed: in the final update stats.tasks is the number of the
\* run's tasks that have settled, fulfilled or rejected.
FinalTasksCountsSettled ==
  (emission # NoData /\ emission.final) =>
    emission.tasks = Cardinality(watch.fulfilled \cup watch.rejected)

\* C5 amended: in the final update stats.tasks is the number of the run's
\* tasks whose promise was fulfilled with a worker's reply, a result or an
\* error payload; a task rejected by a worker's error event is settled but
\* not counted, so stats.tasks is at most the number of settled tasks.
FinalTasksCountsFulfilled ==
  (emission # NoData /\ emission.final) =>
    /\ emission.tasks = Cardinality(watch.fulfilled)
    /\ Cardinality(watch.fulfilled \cup watch.rejected) = watch.nTasks
    /\ watch.fulfilled \cap watch.rejected = {}

\* C5 witness: a final update of a run in which one task was answered with
\* an error payload and another was rejected.
FinalAfterFailures ==
  /\ emission # NoData
  /\ emission.final
  /\ watch.rejected # {}
  /\ \E id \in DOMAIN coord._results : coord._results[id].result.type = "error"

\* C6: no result of a task dispatched before a stop() is added to the
\* result map or to the node total after it, and no onUpdate is invoked for
\* it, also after a later start(fen): the map holds results of the current
\* run only.
NoResultAfterStop ==
  /\ \A id \in DOMAIN coord._results :
       /\ ~coord._results[id].stale
       /\ coord._results[id].run = watch.run
  /\ emission # NoData => ~emission.stale
  /\ coord._totalNodes = SumNodes(coord._results, DOMAIN coord._results)

\* C6 witness: the reply of a task of the stopped first run arrived while
\* the second run was collecting results.
LateReplyInSecondRun ==
  /\ watch.late
  /\ watch.run = 2
  /\ coord.running
  /\ coord._results # EmptyMap

\* generate on every small position and every budget
GenerateWithinBudget ==
  \A pos \in Positions, mp \in 1 .. MaxPlans :
    Len(generate(pos, mp, MaxPlanDepth)) <= mp

\* C9: for maxPlans >= 1 generate never returns more than maxPlans tasks,
\* so stats.tasks <= stats.total in every update.
TasksWithinTotal ==
  /\ GenerateWithinBudget
  /\ watch.nTasks <= coord.maxPlans
  /\ emission # NoData => emission.tasks <= emission.total

\* C9 witness: an update that reports as many tasks as the budget allows.
AllPlansReported ==
  /\ emission # NoData
  /\ emission.total >= 2
  /\ emission.tasks = emission.total

(***************************************************************************)
(* The worker: engine.js searching a game.  chess.js is not part of the    *)
(* sources; what the engine reads of it is supplied by a game: a position  *)
(* is the sequence of the moves made from the task's position (0 is the    *)
(* null move), and the game tells the legal moves of a position, whether   *)
(* the side to move is in check, whether the game is over there, and what  *)
(* evaluate computes there.  The game is a fixed function of the position, *)
(* drawn at the start from a family indexed by game.seed, so that the same *)
(* position always shows the same moves and the same evaluation.           *)
(***************************************************************************)
MaxSearchDepth == 6 \* largest depth of a task message
MaxMultiPV == 2     \* largest multiPV of a task message
NSeeds == 3         \* games of the family
CheckPly == 5       \* no position is in check from this ply on

ThrowNodes == {0, 2, 66}
NullMove == 0
NoMove == 0
QuietKeys == 1 .. 7
CaptureKeys == {8, 9}
PromotionKeys == {10}

\* PIECE_VALUE of the piece a move captures (0: no capture), of the piece
\* it promotes to (0: no promotion) and of the piece that moves
CapturedValue(k) == IF k = 8 THEN 100 ELSE IF k = 9 THEN 900 ELSE 0
PromotionValue(k) == IF k = 10 THEN 900 ELSE 0
MoverValue(k) == IF k = 8 THEN 320 ELSE IF k \in {9, 10} THEN 100 ELSE 330
IsCapture(k) == CapturedValue(k) # 0
IsPromotion(k) == PromotionValue(k) # 0

\* move.from + move.to (killers, TT move) and move.piece + move.from +
\* move.to (history, countermoves, move stack): one key per move
FromTo(k) == k
PieceFromTo(k) == k

RECURSIVE Mix(_, _)
Mix(h, p) == IF p = <<>> THEN h ELSE Mix((h * 37 + Head(p) * 11 + 5) % 1000003, Tail(p))
Hash(p) == Mix(game.seed * 17 + 76, p)

Last(p) == IF p = <<>> THEN NullMove ELSE p[Len(p)]
Played(p, k) == \E i \in DOMAIN p : p[i] = k

\* chess.turn()
Turn(p) == IF Len(p) % 2 = 0 THEN game.turn ELSE IF game.turn = "w" THEN "b" ELSE "w"

\* chess.in_check(): never after a null move (the side that just moved
\* cannot be in check in a legal position)
InCheck(p) == Last(p) # NullMove /\ Len(p) < CheckPly /\ Hash(p) % 7 = 0

LegalKey(p, k) ==
  IF k \in QuietKeys
    THEN Hash(p) % 5 = 1 \/ ((Hash(p) \div 16) + k * k) % 3 = 0 \/ k = 1 + (Hash(p) % 7)
    ELSE /\ ~Played(p, k)
         /\ IF k = 8 THEN (Hash(p) \div 3) % 3 = 0
            ELSE IF k = 9 THEN (Hash(p) \div 5) % 4 = 0
            ELSE (Hash(p) \div 7) % 6 = 0

\* chess.moves({ verbose: true }), in generation order
RECURSIVE KeysFrom(_, _)
KeysFrom(p, k) ==
  IF k > 10 THEN <<>>
  ELSE IF LegalKey(p, k) THEN <<k>> \o KeysFrom(p, k + 1) ELSE KeysFrom(p, k + 1)

Moves(p) == IF Hash(p) % 11 = 0 THEN <<>> ELSE KeysFrom(p, 1)

InCheckmate(p) == Moves(p) = <<>> /\ InCheck(p)
InStalemate(p) == Moves(p) = <<>> /\ ~InCheck(p)
\* in_draw() or in_threefold_repetition() with moves left
InDraw(p) == Moves(p) # <<>> /\ Len(p) >= 2 /\ Hash(p) % 13 = 0
GameOver(p) == InCheckmate(p) \/ InStalemate(p) \/ InDraw(p)

\* what the terms of evaluate add up to for a position that is not over:
\* the mobility term, and all the other terms
MobilityTerm(p) == (((Hash(p) \div 17) % 7) - 3) * 2
OtherTerms(p) == (((Hash(p) \div 11) % 41) - 20) * 25

\* an evaluate that ignores skipMobility
evaluate_withMobility(p, skipMobility) ==
  IF InCheckmate(p) THEN (IF Turn(p) = "w" THEN -30000 ELSE 30000)
  ELSE IF InDraw(p) \/ InStalemate(p) THEN 0
  ELSE OtherTerms(p) + MobilityTerm(p)

\* evaluate(chess, skipMobility), positive = white better
evaluate(p, skipMobility) ==
  IF InCheckmate(p) THEN (IF Turn(p) = "w" THEN -30000 ELSE 30000)
  ELSE IF InDraw(p) \/ InStalemate(p) THEN 0
  ELSE OtherTerms(p) + (IF skipMobility THEN 0 ELSE MobilityTerm(p))

\* chess.fen() as the character codes of the moves that lead to the position
Fen(p) == [i \in DOMAIN p |-> 48 + p[i]]

\* a Chess object: the position it was constructed from and the moves made
\* on it since
Chess(fen) == [fen |-> fen, hist |-> <<>>]
Pos(c) == c.fen \o c.hist
ChessMove(c, k) == [c EXCEPT !.hist = Append(@, k)]
ChessUndo(c) == IF c.hist = <<>> THEN c ELSE [c EXCEPT !.hist = SubSeq(@, 1, Len(@) - 1)]

\* makeNullMoveFen(fen): the position with the other side to move
makeNullMoveFen(p) == Append(p, NullMove)

(***************************************************************************)
(* engine.js: tables of the search.                                        *)
(***************************************************************************)
LMR_TABLE ==
  <<
    <<0, 0, 0, 0, 0, 0, 0, 0, 0, 0, 0, 0, 0>>,
    <<0, 1, 1, 1, 1, 1, 1, 1, 1, 1, 1, 1, 1>>,
    <<0, 1, 1, 1, 1, 1, 1, 1, 1, 1, 1, 1, 1>>,
    <<0, 1, 1, 1, 1, 1, 1, 1, 1, 1, 1, 1, 2>>,
    <<0, 1, 1, 1, 1, 1, 1, 2, 2, 2, 2, 2, 2>>,
    <<0, 1, 1, 1, 1, 2, 2, 2, 2, 2, 2, 2, 2>>,
    <<0, 1, 1, 1, 2, 2, 2, 2, 2, 2, 2, 2, 2>>,
    <<0, 1, 1, 1, 2, 2, 2, 2, 2, 2, 2, 2, 2>>,
    <<0, 1, 1, 2, 2, 2, 2, 2, 2, 2, 2, 3, 3>>,
    <<0, 1, 1, 2, 2, 2, 2, 2, 2, 2, 3, 3, 3>>
  >>
\* a table whose entries extend the search instead of reducing it
Lmr_extend(d, m) == -LMR_TABLE[d + 1][m + 1]

\* LMR_TABLE[d][m], rows and columns numbered from 0
Lmr(d, m) == LMR_TABLE[d + 1][m + 1]

RAZOR_MARGIN(d) == IF d = 1 THEN 200 ELSE IF d = 2 THEN 350 ELSE 0
FUTILITY_MARGIN(d) == IF d = 1 THEN 150 ELSE IF d = 2 THEN 300 ELSE IF d = 3 THEN 500 ELSE 0
LMP_THRESHOLD(d) == IF d = 1 THEN 5 ELSE IF d = 2 THEN 12 ELSE 0
NMP_R == 3
DELTA == 200
ASP_DELTA == 50
MATE == 30000

Abs(x) == IF x < 0 THEN -x ELSE x


EmptyEngine ==
  [nodes |-> 0, killers |-> <<>>, hist |-> <<>>, counter |-> <<>>, moveStack |-> <<>>]

\* _killers[ply] || [null, null]
Killers(e, ply) == IF ply \in DOMAIN e.killers THEN e.killers[ply] ELSE <<NoMove, NoMove>>

\* ttGetMove(fen)
ttGetMove(tbl, fen) ==
  LET e == Slot(tbl, ttKey(fen))
  IN  IF e # Null /\ e.fen = fen /\ e.bestMove # NoMove THEN e.bestMove ELSE NoMove


\* orderMoves: scoreMove(m), times 100 (the history bonus is hist / 100)
scoreMove(e, k, ply, prevMoveKey, ttMove) ==
  LET kl == Killers(e, ply)
      counterKey == IF prevMoveKey # NoMove THEN At(e.counter, prevMoveKey) ELSE NoMove
      quiet == ~IsCapture(k) /\ ~IsPromotion(k)
  IN  (IF ttMove # NoMove /\ FromTo(k) = ttMove THEN 30000 ELSE 0)
    + (IF IsCapture(k) THEN (CapturedValue(k) * 10 - MoverValue(k)) * 100 ELSE 0)
    + (IF IsPromotion(k) THEN PromotionValue(k) * 8 * 100 ELSE 0)
    + (IF kl[1] = FromTo(k) \/ kl[2] = FromTo(k) THEN 9000 ELSE 0)
    + (IF counterKey # NoMove /\ quiet /\ counterKey = PieceFromTo(k) THEN 7500 ELSE 0)
    + (IF quiet /\ At(e.hist, PieceFromTo(k)) # 0
         THEN (IF At(e.hist, PieceFromTo(k)) > 8000 THEN 8000 ELSE At(e.hist, PieceFromTo(k)))
         ELSE 0)

orderMoves(e, moves, ply, prevMoveKey, ttMove) ==
  LET scored == [i \in DOMAIN moves |->
                   <<scoreMove(e, moves[i], ply, prevMoveKey, ttMove), moves[i]>>]
      sorted == SortDesc(<<>>, scored)
  IN  [i \in DOMAIN sorted |-> sorted[i][2]]

(***************************************************************************)
(* The worker's call stack.  A step works on n, the worker's state         *)
(* [stack, ret, boards, eng, tt, wk], and returns it changed.  A frame     *)
(* keeps the locals of its call, pc where the call stands, ch the Chess    *)
(* object it was given, and entry, the move history of that object when    *)
(* the call was made.  An alphaBeta frame also notes beta0, the beta the    *)
(* move loop started with, and flag, the flag the call gave to ttSet.      *)
(***************************************************************************)
TopOf(n) == n.stack[Len(n.stack)]
SetTop(n, f) == [n EXCEPT !.stack[Len(n.stack)] = f]

\* what a call leaves when it returns: its value, and for the record the
\* frame that returned and the move history of its Chess object then
Returned(f, v, b) ==
  [value |-> v, fn |-> f.fn, entry |-> f.entry, left |-> b[f.ch].hist, frame |-> f,
   pos |-> Pos(b[f.ch])]

\* return v
DoReturn(n, v) ==
  [n EXCEPT !.stack = SubSeq(@, 1, Len(@) - 1),
            !.ret = Returned(TopOf(n), v, n.boards)]

\* the caller goes on as f and calls the function whose frame is callee
DoCall(n, f, callee) == [n EXCEPT !.stack = Append(SetTop(n, f).stack, callee)]

AbFrame(b, ch, depth, alpha, beta, maximizing, ply) ==
  [fn |-> "alphaBeta", pc |-> "enter", ch |-> ch, entry |-> b[ch].hist,
   depth |-> depth, alpha |-> alpha, beta |-> beta, maximizing |-> maximizing,
   ply |-> ply, fen |-> <<>>, inCheckNow |-> FALSE, rawMoves |-> <<>>, nullCh |-> 0,
   staticEval |-> Null, prevMoveKey |-> NoMove, moves |-> <<>>, mi |-> 0,
   best |-> 0, bestMoveSoFar |-> NoMove, origAlpha |-> 0, searchedFirst |-> FALSE,
   quietSearched |-> 0, isQuiet |-> FALSE, newDepth |-> 0,
   beta0 |-> 0, flag |-> -1]

QFrame(b, ch, alpha, beta, maximizing) ==
  [fn |-> "quiescence", pc |-> "enter", ch |-> ch, entry |-> b[ch].hist,
   alpha |-> alpha, beta |-> beta, maximizing |-> maximizing,
   alpha0 |-> alpha, beta0 |-> beta,
   inCheck |-> FALSE, stand |-> 0, allMoves |-> <<>>, i |-> 0]

SrFrame(fen, depth, multiPV) ==
  [fn |-> "searchRoot", pc |-> "enter", ch |-> 1, entry |-> <<>>,
   fen |-> fen, depth |-> depth, multiPV |-> multiPV, max |-> FALSE,
   rawMoves |-> <<>>, mv |-> 0, results |-> <<>>, score |-> 0, prevScore |-> 0,
   d |-> 0, lo |-> 0, hi |-> 0]

\* the engine throws when it visits its game.throwNode-th node
Throwing(e) == game.throwNode > 0 /\ e.nodes = game.throwNode

\* what a call leaves that threw instead of returning
Thrown == [thrown |-> TRUE]

\* a catch that posts nothing
Caught_silent(n, data) ==
  [n EXCEPT !.stack = <<>>, !.boards = <<>>, !.ret = NoData]

\* self.onmessage, catch (err): the error reply
Caught(n, data) ==
  [n EXCEPT !.stack = <<>>, !.boards = <<>>, !.ret = NoData,
            !.wk.outbox = Append(@, onmessage(data, TRUE, <<>>, 0))]

\* an exception unwinds the stack to the nearest try: the null-move probe
\* of an alphaBeta call (catch (_) {}), or self.onmessage
RECURSIVE DoThrow(_)
DoThrow(n) ==
  LET f == TopOf(n)
  IN  IF f.fn = "onmessage" THEN Caught(n, f.data)
      ELSE IF f.fn = "alphaBeta" /\ f.pc = "null"
        THEN [SetTop(n, [f EXCEPT !.pc = "razor", !.nullCh = 0])
                EXCEPT !.boards = SubSeq(@, 1, f.nullCh - 1), !.ret = Thrown]
      ELSE DoThrow([n EXCEPT !.stack = SubSeq(@, 1, Len(@) - 1)])

(***************************************************************************)
(* alphaBeta                                                               *)
(***************************************************************************)
\* entry to the move loop: mate-distance pruning, table probe, depth 0,
\* game over, null-move probe
AbEnterStep(n) ==
  LET f     == TopOf(n)
      p     == Pos(n.boards[f.ch])
      n1    == [n EXCEPT !.eng.nodes = @ + 1]
      alpha == Max(f.alpha, -(MATE - f.ply))
      beta  == Min(f.beta, MATE - f.ply)
      fen   == Fen(p)
      ttHit == ttGet(n.tt, fen, f.depth, alpha, beta)
      rawMoves == Moves(p)
      inCheckNow == InCheck(p)
      g     == [f EXCEPT !.alpha = alpha, !.beta = beta, !.fen = fen,
                         !.inCheckNow = inCheckNow, !.rawMoves = rawMoves]
      nullFen == makeNullMoveFen(p)
      nb    == Append(n1.boards, Chess(nullFen))
  IN  IF Throwing(n1.eng) THEN DoThrow(n1)
      ELSE IF alpha >= beta THEN DoReturn(n1, alpha)
      ELSE IF ttHit # Null THEN DoReturn(n1, ttHit.score)
      ELSE IF f.depth = 0
        THEN DoCall(n1, [g EXCEPT !.pc = "tailQ"],
                    QFrame(n1.boards, f.ch, alpha, beta, f.maximizing))
      ELSE IF GameOver(p) THEN DoReturn(n1, evaluate(p, FALSE))
      ELSE IF rawMoves = <<>> THEN DoReturn(n1, evaluate(p, FALSE))
      ELSE IF ~inCheckNow /\ f.depth >= NMP_R + 1 /\ ~InCheck(nullFen)
        THEN DoCall([n1 EXCEPT !.boards = nb],
                    [g EXCEPT !.pc = "null", !.nullCh = Len(nb)],
                    AbFrame(nb, Len(nb), f.depth - 1 - NMP_R, alpha, beta,
                            ~f.maximizing, f.ply + 1))
      ELSE SetTop(n1, [g EXCEPT !.pc = "razor"])

\* the locals of the move loop
InitLoop(n, f) ==
  LET prevMoveKey == IF f.ply > 0 THEN At(n.eng.moveStack, f.ply - 1) ELSE NoMove
      ttMove == ttGetMove(n.tt, f.fen)
  IN  SetTop(n, [f EXCEPT
        !.pc = "loop",
        !.prevMoveKey = prevMoveKey,
        !.moves = orderMoves(n.eng, f.rawMoves, f.ply, prevMoveKey, ttMove),
        !.best = IF f.maximizing THEN -INFINITY ELSE INFINITY,
        !.bestMoveSoFar = NoMove,
        !.origAlpha = f.alpha,
        !.beta0 = f.beta,
        !.searchedFirst = FALSE,
        !.quietSearched = 0,
        !.mi = 0])

\* razoring
AbRazorStep(n) ==
  LET f  == TopOf(n)
      p  == Pos(n.boards[f.ch])
      se == IF ~f.inCheckNow /\ f.depth <= 3 THEN [v |-> evaluate(p, FALSE)] ELSE Null
      g  == [f EXCEPT !.staticEval = se]
  IN  IF se # Null /\ f.maximizing /\ f.depth >= 1 /\ f.depth <= 2
         /\ se.v + RAZOR_MARGIN(f.depth) < f.alpha
        THEN DoCall(n, [g EXCEPT !.pc = "razorQ"],
                    QFrame(n.boards, f.ch, f.alpha - 1, f.alpha, f.maximizing))
        ELSE InitLoop(n, g)

\* after the quiescence call of depth 0, the null-move probe, the razoring
\* quiescence call
AbResumeStep(n) ==
  LET f == TopOf(n)
      v == n.ret.value
      m == [n EXCEPT !.boards = SubSeq(@, 1, f.nullCh - 1)]
  IN  IF f.pc = "tailQ" THEN DoReturn(n, v)
      ELSE IF f.pc = "null"
        THEN IF f.maximizing /\ v >= f.beta THEN DoReturn(m, f.beta)
             ELSE IF ~f.maximizing /\ v <= f.alpha THEN DoReturn(m, f.alpha)
             ELSE SetTop(m, [f EXCEPT !.pc = "razor", !.nullCh = 0])
      ELSE IF v < f.alpha THEN DoReturn(n, v)
      ELSE InitLoop(n, f)

\* the store flag computed after the move loop
StoreFlag(best, beta, origAlpha) ==
  IF best >= beta THEN TT_LOWER ELSE IF best <= origAlpha THEN TT_UPPER ELSE TT_EXACT

\* after the move loop: store in the table, return best
AbExit(n, f) ==
  LET flag == StoreFlag(f.best, f.beta, f.origAlpha)
  IN  DoReturn(SetTop([n EXCEPT !.tt = ttSet(@, f.fen, f.depth, f.best, flag,
                                             f.bestMoveSoFar)],
                      [f EXCEPT !.flag = flag]),
               f.best)

Quiet(k) == ~IsCapture(k) /\ ~IsPromotion(k)

\* the `continue`s at the head of the loop body, from move index mi on:
\* the index of the next move that is searched (Len(moves) if none) and the
\* count of late quiet moves
RECURSIVE ScanMoves(_, _, _)
ScanMoves(f, mi, q) ==
  IF mi >= Len(f.moves) THEN [mi |-> mi, q |-> q]
  ELSE LET k == f.moves[mi + 1]
           futile == /\ f.staticEval # Null
                     /\ Quiet(k)
                     /\ \/ f.maximizing /\ f.staticEval.v + FUTILITY_MARGIN(f.depth) <= f.alpha
                        \/ ~f.maximizing /\ f.staticEval.v - FUTILITY_MARGIN(f.depth) >= f.beta
           late == ~f.inCheckNow /\ f.depth <= 2 /\ Quiet(k) /\ f.searchedFirst
       IN  IF futile THEN ScanMoves(f, mi + 1, q)
           ELSE IF late /\ q + 1 > LMP_THRESHOLD(f.depth) THEN ScanMoves(f, mi + 1, q + 1)
           ELSE [mi |-> mi, q |-> IF late THEN q + 1 ELSE q]

\* one turn of the move loop up to the recursive call, or the end of the loop
AbLoopStep(n) ==
  LET f == TopOf(n)
      sc == ScanMoves(f, f.mi, f.quietSearched)
      k == f.moves[sc.mi + 1]
      ch == ChessMove(n.boards[f.ch], k)
      nb == [n.boards EXCEPT ![f.ch] = ch]
      givesCheck == InCheck(Pos(ch))
      newDepth == f.depth - 1
      g == [f EXCEPT !.mi = sc.mi, !.quietSearched = sc.q, !.isQuiet = Quiet(k),
                     !.newDepth = newDepth]
      n1 == [n EXCEPT !.eng.moveStack = MapSet(@, f.ply, PieceFromTo(k)), !.boards = nb]
      nullLo == IF f.maximizing THEN f.alpha ELSE f.beta - 1
      nullHi == IF f.maximizing THEN f.alpha + 1 ELSE f.beta
      r == Min(newDepth, Lmr(Min(31, f.depth), Min(63, sc.mi)))
  IN  IF sc.mi >= Len(f.moves)
        THEN AbExit(n, [f EXCEPT !.mi = sc.mi, !.quietSearched = sc.q])
      ELSE IF ~f.searchedFirst
        THEN DoCall(n1, [g EXCEPT !.pc = "first"],
                    AbFrame(nb, f.ch, newDepth, f.alpha, f.beta, ~f.maximizing, f.ply + 1))
      ELSE IF sc.mi >= 2 /\ f.depth >= 3 /\ Quiet(k) /\ ~givesCheck /\ ~f.inCheckNow
        THEN DoCall(n1, [g EXCEPT !.pc = "lmr"],
                    AbFrame(nb, f.ch, newDepth - r, nullLo, nullHi, ~f.maximizing, f.ply + 1))
      ELSE DoCall(n1, [g EXCEPT !.pc = "pvs"],
                  AbFrame(nb, f.ch, newDepth, nullLo, nullHi, ~f.maximizing, f.ply + 1))

\* a cutoff that adds depth, not depth * depth, to the history entry
CutoffTables_depthOnly(e, f, k) ==
  LET kl == Killers(e, f.ply)
      kk == FromTo(k)
      hk == PieceFromTo(k)
      e1 == [e EXCEPT !.killers = MapSet(@, f.ply,
                                   IF kl[1] # kk THEN <<kk, kl[1]>> ELSE kl)]
      e2 == [e1 EXCEPT !.hist = MapSet(@, hk, At(e1.hist, hk) + f.depth)]
  IN  IF f.prevMoveKey # NoMove
        THEN [e2 EXCEPT !.counter = MapSet(@, f.prevMoveKey, hk)]
        ELSE e2

\* a cutoff that overwrites slot 0 and keeps slot 1
CutoffTables_noShift(e, f, k) ==
  LET kl == Killers(e, f.ply)
      hk == PieceFromTo(k)
      e1 == [e EXCEPT !.killers = MapSet(@, f.ply, <<FromTo(k), kl[2]>>)]
      e2 == [e1 EXCEPT !.hist = MapSet(@, hk, At(e1.hist, hk) + f.depth * f.depth)]
  IN  IF f.prevMoveKey # NoMove
        THEN [e2 EXCEPT !.counter = MapSet(@, f.prevMoveKey, hk)]
        ELSE e2

\* killers, history and countermove of a quiet move that cut off
CutoffTables(e, f, k) ==
  LET kl == Killers(e, f.ply)
      kk == FromTo(k)
      hk == PieceFromTo(k)
      e1 == [e EXCEPT !.killers = MapSet(@, f.ply,
                                   IF kl[1] # kk THEN <<kk, kl[1]>> ELSE kl)]
      e2 == [e1 EXCEPT !.hist = MapSet(@, hk, At(e1.hist, hk) + f.depth * f.depth)]
  IN  IF f.prevMoveKey # NoMove
        THEN [e2 EXCEPT !.counter = MapSet(@, f.prevMoveKey, hk)]
        ELSE e2

\* after a recursive call of the move loop: the re-search, or the rest of
\* the loop body
AbAfterSearchStep(n) ==
  LET f == TopOf(n)
      score == n.ret.value
      k == f.moves[f.mi + 1]
      hk == PieceFromTo(k)
      nb == [n.boards EXCEPT ![f.ch] = ChessUndo(@)]
      better == IF f.maximizing THEN score > f.best ELSE score < f.best
      raises == IF f.maximizing THEN score > f.alpha ELSE score < f.beta
      alpha == IF f.maximizing /\ raises THEN score ELSE f.alpha
      beta == IF ~f.maximizing /\ raises THEN score ELSE f.beta
      e1 == IF raises /\ f.isQuiet
              THEN [n.eng EXCEPT !.hist = MapSet(@, hk, At(n.eng.hist, hk) + f.depth)]
              ELSE n.eng
      g == [f EXCEPT !.best = IF better THEN score ELSE @,
                     !.bestMoveSoFar = IF better THEN FromTo(k) ELSE @,
                     !.alpha = alpha, !.beta = beta, !.searchedFirst = TRUE]
      e2 == IF f.isQuiet THEN CutoffTables(e1, g, k) ELSE e1
  IN  IF f.pc \in {"lmr", "pvs"} /\ score > f.alpha /\ score < f.beta
        THEN DoCall(n, [f EXCEPT !.pc = "re"],
                    AbFrame(n.boards, f.ch, f.newDepth, f.alpha, f.beta,
                            ~f.maximizing, f.ply + 1))
      ELSE IF alpha >= beta
        THEN AbExit([n EXCEPT !.boards = nb, !.eng = e2], g)
      ELSE SetTop([n EXCEPT !.boards = nb, !.eng = e1],
                  [g EXCEPT !.pc = "loop", !.mi = f.mi + 1])

(***************************************************************************)
(* quiescence                                                              *)
(***************************************************************************)
\* val(m) of the MVV-LVA sort
MvvLva(k) ==
  (IF IsCapture(k) THEN CapturedValue(k) * 10 - MoverValue(k) ELSE 0) + PromotionValue(k)

RECURSIVE Captures(_)
Captures(moves) ==
  IF moves = <<>> THEN <<>>
  ELSE IF IsCapture(Head(moves)) \/ IsPromotion(Head(moves))
         THEN <<Head(moves)>> \o Captures(Tail(moves))
         ELSE Captures(Tail(moves))

QEnterStep(n) ==
  LET f  == TopOf(n)
      p  == Pos(n.boards[f.ch])
      n1 == [n EXCEPT !.eng.nodes = @ + 1]
      inCheck == InCheck(p)
      stand == evaluate(p, TRUE)
      alpha == IF ~inCheck /\ f.maximizing /\ stand > f.alpha THEN stand ELSE f.alpha
      beta  == IF ~inCheck /\ ~f.maximizing /\ stand < f.beta THEN stand ELSE f.beta
      allMoves == IF inCheck THEN Moves(p) ELSE Captures(Moves(p))
      scored == [i \in DOMAIN allMoves |-> <<MvvLva(allMoves[i]), allMoves[i]>>]
      sorted == SortDesc(<<>>, scored)
  IN  IF Throwing(n1.eng) THEN DoThrow(n1)
      ELSE IF ~inCheck /\ f.maximizing /\ stand >= f.beta THEN DoReturn(n1, f.beta)
      ELSE IF ~inCheck /\ ~f.maximizing /\ stand <= f.alpha THEN DoReturn(n1, f.alpha)
      ELSE IF inCheck /\ allMoves = <<>>
        THEN DoReturn(n1, IF f.maximizing THEN -MATE ELSE MATE)
      ELSE SetTop(n1, [f EXCEPT !.pc = "loop", !.inCheck = inCheck,
                                !.stand = IF inCheck THEN 0 ELSE stand,
                                !.alpha = alpha, !.beta = beta,
                                !.allMoves = [i \in DOMAIN sorted |-> sorted[i][2]],
                                !.i = 0])

\* delta pruning: the index of the next move that is searched
RECURSIVE ScanCaptures(_, _)
ScanCaptures(f, i) ==
  IF i >= Len(f.allMoves) THEN i
  ELSE LET k == f.allMoves[i + 1]
           gain == CapturedValue(k)
       IN  IF /\ ~f.inCheck
              /\ IsCapture(k)
              /\ \/ f.maximizing /\ f.stand + gain + DELTA < f.alpha
                 \/ ~f.maximizing /\ f.stand - gain - DELTA > f.beta
             THEN ScanCaptures(f, i + 1)
             ELSE i

QLoopStep(n) ==
  LET f == TopOf(n)
      i == ScanCaptures(f, f.i)
      k == f.allMoves[i + 1]
      nb == [n.boards EXCEPT ![f.ch] = ChessMove(@, k)]
  IN  IF i >= Len(f.allMoves)
        THEN DoReturn(n, IF f.maximizing THEN f.alpha ELSE f.beta)
        ELSE DoCall([n EXCEPT !.boards = nb], [f EXCEPT !.pc = "after", !.i = i],
                    QFrame(nb, f.ch, f.alpha, f.beta, ~f.maximizing))

QAfterStep(n) ==
  LET f == TopOf(n)
      score == n.ret.value
      n1 == [n EXCEPT !.boards[f.ch] = ChessUndo(@)]
      alpha == IF f.maximizing /\ score > f.alpha THEN score ELSE f.alpha
      beta == IF ~f.maximizing /\ score < f.beta THEN score ELSE f.beta
      g == [f EXCEPT !.alpha = alpha, !.beta = beta]
  IN  IF alpha >= beta
        THEN DoReturn(SetTop(n1, g), IF f.maximizing THEN alpha ELSE beta)
        ELSE SetTop(n1, [g EXCEPT !.pc = "loop", !.i = f.i + 1])

(***************************************************************************)
(* searchRoot                                                              *)
(***************************************************************************)
\* a history table carried over as it is
HalvedHistory_keep(hist) == hist

\* _histTable[k] = oldHist[k] >> 1 where that is positive
HalvedHistory(hist) ==
  [k \in {x \in DOMAIN hist : hist[x] \div 2 > 0} |-> hist[k] \div 2]

\* results left in the order of the root moves
SortResults_unsorted(results) == results

\* results.sort((a, b) => b.score - a.score)
SortResults(results) ==
  LET scored == [i \in DOMAIN results |-> <<results[i].score, results[i]>>]
      sorted == SortDesc(<<>>, scored)
  IN  [i \in DOMAIN sorted |-> sorted[i][2]]

\* up to the loop over the root moves
SrEnterStep(n) ==
  LET f == TopOf(n)
      chess == Chess(f.fen)
      rawMoves == Moves(Pos(chess))
      n1 == [n EXCEPT !.boards = <<chess>>,
                      !.eng = [nodes |-> 0, killers |-> <<>>, moveStack |-> <<>>,
                               hist |-> HalvedHistory(n.eng.hist),
                               counter |-> n.eng.counter]]
  IN  IF rawMoves = <<>> THEN DoReturn(n1, <<>>)
      ELSE SetTop(n1, [f EXCEPT !.pc = "move", !.max = (Turn(Pos(chess)) = "w"),
                                !.rawMoves = rawMoves, !.mv = 1, !.results = <<>>])

\* iteration d of the iterative deepening of a root move: the first
\* alphaBeta call
SrIteration(n, f, d) ==
  IF d > 1
    THEN LET lo == f.prevScore - ASP_DELTA
             hi == f.prevScore + ASP_DELTA
         IN  DoCall(n, [f EXCEPT !.pc = "narrow", !.d = d, !.lo = lo, !.hi = hi],
                    AbFrame(n.boards, f.ch, d - 1, lo, hi, ~f.max, 0))
    ELSE DoCall(n, [f EXCEPT !.pc = "full", !.d = d],
                AbFrame(n.boards, f.ch, d - 1, -INFINITY, INFINITY, ~f.max, 0))

\* the root move is not taken back
SrFinishMove_noUndo(n, f) ==
  SetTop(n,
         [f EXCEPT !.pc = "move", !.mv = @ + 1,
                   !.results = Append(@, [move |-> f.rawMoves[f.mv],
                                          score |-> IF f.max THEN f.score ELSE -f.score])])

\* after the iterations of a root move: undo it, push its result
SrFinishMove(n, f) ==
  SetTop([n EXCEPT !.boards[f.ch] = ChessUndo(@)],
         [f EXCEPT !.pc = "move", !.mv = @ + 1,
                   !.results = Append(@, [move |-> f.rawMoves[f.mv],
                                          score |-> IF f.max THEN f.score ELSE -f.score])])

\* the head of the loop over the root moves; after it, sort and slice
SrMoveStep(n) ==
  LET f == TopOf(n)
      n1 == [n EXCEPT !.boards[f.ch] = ChessMove(@, f.rawMoves[f.mv])]
      g == [f EXCEPT !.score = 0, !.prevScore = 0]
  IN  IF f.mv > Len(f.rawMoves)
        THEN DoReturn(n, Slice0(SortResults(f.results), f.multiPV))
      ELSE IF 1 <= f.depth THEN SrIteration(n1, g, 1)
      ELSE SrFinishMove(n1, g)

\* an aspiration loop that goes from the narrow window to the full one
SrIterateStep_noWide(n) ==
  LET f == TopOf(n)
      s == n.ret.value
      miss == s <= f.lo \/ s >= f.hi
      g == [f EXCEPT !.score = s]
  IN  IF f.pc \in {"narrow", "wide"} /\ miss
        THEN DoCall(n, [f EXCEPT !.pc = "full"],
                    AbFrame(n.boards, f.ch, f.d - 1, -INFINITY, INFINITY, ~f.max, 0))
      ELSE IF Abs(s) >= 29000 THEN SrFinishMove(n, g)
      ELSE IF f.d + 1 <= f.depth THEN SrIteration(n, [g EXCEPT !.prevScore = s], f.d + 1)
      ELSE SrFinishMove(n, [g EXCEPT !.prevScore = s])

\* after an alphaBeta call of the aspiration loop
SrIterateStep(n) ==
  LET f == TopOf(n)
      s == n.ret.value
      miss == s <= f.lo \/ s >= f.hi
      lo3 == f.prevScore - ASP_DELTA * 3
      hi3 == f.prevScore + ASP_DELTA * 3
      g == [f EXCEPT !.score = s]
  IN  IF f.pc = "narrow" /\ miss
        THEN DoCall(n, [f EXCEPT !.pc = "wide", !.lo = lo3, !.hi = hi3],
                    AbFrame(n.boards, f.ch, f.d - 1, lo3, hi3, ~f.max, 0))
      ELSE IF f.pc = "wide" /\ miss
        THEN DoCall(n, [f EXCEPT !.pc = "full"],
                    AbFrame(n.boards, f.ch, f.d - 1, -INFINITY, INFINITY, ~f.max, 0))
      ELSE IF Abs(s) >= 29000 THEN SrFinishMove(n, g)
      ELSE IF f.d + 1 <= f.depth THEN SrIteration(n, [g EXCEPT !.prevScore = s], f.d + 1)
      ELSE SrFinishMove(n, [g EXCEPT !.prevScore = s])

(***************************************************************************)
(* The worker's steps as actions                                           *)
(***************************************************************************)
Worker == [stack |-> stack, ret |-> ret, boards |-> boards, eng |-> eng,
           tt |-> ttTable, wk |-> wk]

Becomes(n) ==
  /\ stack' = n.stack
  /\ ret' = n.ret
  /\ boards' = n.boards
  /\ eng' = n.eng
  /\ ttTable' = n.tt
  /\ wk' = n.wk
  /\ UNCHANGED <<game, ttLastSet, ttProbe, poolVars, planVars, coordVars, linesVars, evalVars>>

At_(fn, pcs) == stack # <<>> /\ stack[Len(stack)].fn = fn /\ stack[Len(stack)].pc \in pcs

\* self.onmessage up to the call of searchRoot(fen, depth, multiPV || 1)
OnMessage ==
  /\ stack = <<>>
  /\ wk.inbox # <<>>
  /\ LET data == Head(wk.inbox)
     IN  Becomes([Worker EXCEPT
           !.wk.inbox = Tail(@),
           !.ret = NoData,
           !.stack = <<[fn |-> "onmessage", pc |-> "try", data |-> data],
                       SrFrame(data.fen, data.depth,
                               IF data.multiPV = 0 THEN 1 ELSE data.multiPV)>>])

\* self.onmessage after searchRoot returned: the result reply
OnSearched ==
  /\ At_("onmessage", {"try"})
  /\ Becomes([Worker EXCEPT
       !.stack = <<>>,
       !.boards = <<>>,
       !.wk.outbox = Append(@, onmessage(stack[1].data, FALSE, ret.value, eng.nodes))])

SrEnter == At_("searchRoot", {"enter"}) /\ Becomes(SrEnterStep(Worker))
SrMove == At_("searchRoot", {"move"}) /\ Becomes(SrMoveStep(Worker))
SrIterate == At_("searchRoot", {"narrow", "wide", "full"}) /\ Becomes(SrIterateStep(Worker))
AbEnter == At_("alphaBeta", {"enter"}) /\ Becomes(AbEnterStep(Worker))
AbResume == At_("alphaBeta", {"tailQ", "null", "razorQ"}) /\ Becomes(AbResumeStep(Worker))
AbRazor == At_("alphaBeta", {"razor"}) /\ Becomes(AbRazorStep(Worker))
AbLoop == At_("alphaBeta", {"loop"}) /\ Becomes(AbLoopStep(Worker))
AbAfterSearch ==
  At_("alphaBeta", {"first", "lmr", "pvs", "re"}) /\ Becomes(AbAfterSearchStep(Worker))
QEnter == At_("quiescence", {"enter"}) /\ Becomes(QEnterStep(Worker))
QLoop == At_("quiescence", {"loop"}) /\ Becomes(QLoopStep(Worker))
QAfter == At_("quiescence", {"after"}) /\ Becomes(QAfterStep(Worker))

\* two task messages for the same search
Task(taskId, depth, multiPV) ==
  [taskId |-> taskId, fen |-> <<>>, depth |-> depth, multiPV |-> multiPV]

InitSearch ==
  /\ game \in [seed : 1..NSeeds, turn : {"w", "b"}, throwNode : ThrowNodes]
  /\ \E depth \in 1..MaxSearchDepth, multiPV \in 0..MaxMultiPV :
       wk = [inbox |-> <<Task(1, depth, multiPV), Task(2, depth, multiPV)>>,
             outbox |-> <<>>]
  /\ eng = EmptyEngine
  /\ boards = <<>>
  /\ stack = <<>>
  /\ ret = NoData
  /\ ttTable = <<>>
  /\ ttLastSet = NoData
  /\ ttProbe = NoData
  /\ PoolIdle
  /\ PlanIdle
  /\ CoordIdle
  /\ LinesIdle
  /\ EvalIdle

NextSearch ==
  \/ OnMessage
  \/ OnSearched
  \/ SrEnter
  \/ SrMove
  \/ SrIterate
  \/ AbEnter
  \/ AbResume
  \/ AbRazor
  \/ AbLoop
  \/ AbAfterSearch
  \/ QEnter
  \/ QLoop
  \/ QAfter

SpecSearch == InitSearch /\ [][NextSearch]_vars

(***************************************************************************)
(* Claims about the search                                                 *)
(***************************************************************************)
HasReturned(fn) == ret # NoData /\ ret # Thrown /\ ret.fn = fn

\* the calls that stand between a chess.move and its chess.undo
InMove(f) ==
  \/ f.fn = "alphaBeta" /\ f.pc \in {"first", "lmr", "pvs", "re"}
  \/ f.fn = "quiescence" /\ f.pc = "after"
  \/ f.fn = "searchRoot" /\ f.pc \in {"narrow", "wide", "full"}

\* the move history h is what the call of frame f expects of a Chess
\* object it holds: the history at its entry, and one move more between a
\* move and its undo
Expected(f, h) ==
  IF InMove(f)
    THEN Len(h) = Len(f.entry) + 1 /\ SubSeq(h, 1, Len(h) - 1) = f.entry
    ELSE h = f.entry

\* C13: when alphaBeta, quiescence or searchRoot returns, and at the head of
\* every turn of searchRoot's loop over the root moves, the Chess object
\* holds the position it held at entry.  Every call finds its object as it
\* expects it: with the entry position, and between a move and its undo
\* with exactly that one move more, both when control is in the call and
\* when it hands the object to a callee.  The null-move probe works on an
\* object of its own and leaves the caller's object alone.
PositionRestored ==
  /\ (ret # NoData /\ ret # Thrown) => ret.left = ret.entry
  /\ At_("searchRoot", {"move"}) => boards[1].hist = <<>>
  /\ \A i \in DOMAIN stack :
       stack[i].fn # "onmessage" /\ stack[i].pc # "enter" =>
         IF i = Len(stack)
           THEN Expected(stack[i], boards[stack[i].ch].hist)
         ELSE IF stack[i + 1].ch = stack[i].ch
           THEN Expected(stack[i], stack[i + 1].entry)
         ELSE /\ stack[i].pc = "null"
              /\ stack[i + 1].ch = stack[i].nullCh
              /\ boards[stack[i].ch].hist = stack[i].entry

\* an alphaBeta call that ran a null-move probe and searched moves has
\* returned
RestoredAfterProbeAndMoves ==
  /\ HasReturned("alphaBeta")
  /\ ret.frame.depth >= NMP_R + 1
  /\ ret.frame.searchedFirst
  /\ ret.frame.mi >= 2
  /\ ret.left = ret.entry
  /\ ret.entry # <<>>

\* C14: the worker posts exactly one reply per task message, with the
\* message's taskId: a result reply carrying searchRoot's lines and the node
\* count when searchRoot returns, an error reply when it throws; it posts
\* nothing else.
OneReplyPerTask ==
  /\ [](wk # NoData =>
          /\ Len(wk.outbox) + Len(wk.inbox) + (IF stack # <<>> THEN 1 ELSE 0) = 2
          /\ \A i \in DOMAIN wk.outbox : wk.outbox[i].taskId = i)
  /\ [][LET done == stack # <<>> /\ stack' = <<>>
            r == wk'.outbox[Len(wk'.outbox)]
        IN  IF done
              THEN /\ wk'.outbox = Append(wk.outbox, r)
                   /\ r.taskId = stack[1].data.taskId
                   /\ IF At_("onmessage", {"try"})
                        THEN r.type = "result" /\ r.lines = ret.value /\ r.nodes = eng.nodes
                        ELSE r.type = "error"
              ELSE wk'.outbox = wk.outbox]_vars

ErrorThenResult ==
  /\ Len(wk.outbox) = 2
  /\ wk.outbox[1].type = "error" /\ wk.outbox[1].taskId = 1
  /\ wk.outbox[2].type = "result" /\ wk.outbox[2].taskId = 2

\* C15: searchRoot returns exactly min(multiPV, number of legal root moves)
\* entries; their moves are distinct legal root moves; their scores do not
\* increase along the list; every root move was scored and no root move
\* left out was scored higher than a returned one; with no legal root move
\* the list is empty.
RootLinesBestFirst ==
  HasReturned("searchRoot") =>
    LET lines == ret.value
        legal == Moves(ret.frame.fen)
        res   == ret.frame.results
    IN  /\ Len(lines) = Min(ret.frame.multiPV, Len(legal))
        /\ legal = <<>> => lines = <<>>
        /\ \A i \in DOMAIN lines : \E j \in DOMAIN legal : lines[i].move = legal[j]
        /\ \A i, j \in DOMAIN lines : i # j => lines[i].move # lines[j].move
        /\ \A i, j \in DOMAIN lines : i < j => lines[i].score >= lines[j].score
        /\ legal # <<>> => Len(res) = Len(legal)
        /\ \A j \in DOMAIN res :
             (\A i \in DOMAIN lines : lines[i].move # res[j].move) =>
               \A i \in DOMAIN lines : res[j].score <= lines[i].score

\* two lines returned of three or more root moves, the first root move
\* left out
TwoOfManyReturned ==
  /\ HasReturned("searchRoot")
  /\ Len(ret.value) = 2
  /\ Len(ret.frame.results) >= 3
  /\ ret.value[1].score > ret.value[2].score
  /\ \A i \in DOMAIN ret.value : ret.value[i].move # ret.frame.results[1].move

\* the static evaluation of a position without the mobility term
StandPat(p) == IF InDraw(p) \/ InStalemate(p) THEN 0 ELSE OtherTerms(p)

\* quiescence has returned from a position whose side to move is not in
\* check and has no capture and no promotion
QuietReturned ==
  /\ HasReturned("quiescence")
  /\ ~InCheck(ret.pos)
  /\ Captures(Moves(ret.pos)) = <<>>

\* C19 as stated: for a position not in check with no capture or promotion,
\* quiescence(alpha, beta) returns the static evaluation without mobility.
QuietReturnsStandPat ==
  QuietReturned => ret.value = StandPat(ret.pos)

\* C19, amended: for such a position (called with alpha < beta) quiescence
\* returns the static evaluation without mobility clamped into the window
\* [alpha, beta] it was called with, so the static evaluation itself only
\* when that lies in the window.
QuietReturnsClampedStandPat ==
  QuietReturned =>
    /\ ret.frame.alpha0 < ret.frame.beta0
    /\ ret.value = Max(ret.frame.alpha0, Min(ret.frame.beta0, StandPat(ret.pos)))

QuietReturnedBound ==
  /\ QuietReturned
  /\ ret.value # StandPat(ret.pos)
  /\ ret.value \in {ret.frame.alpha0, ret.frame.beta0}

\* C17 as stated: two consecutive searchRoot calls with the same FEN, depth
\* and multiPV in one worker return the same top move.
SameTopMoveBothCalls ==
  (/\ Len(wk.outbox) = 2
   /\ wk.outbox[1].type = "result" /\ wk.outbox[2].type = "result"
   /\ wk.outbox[1].lines # <<>> /\ wk.outbox[2].lines # <<>>)
  => wk.outbox[1].lines[1].move = wk.outbox[2].lines[1].move

\* an alphaBeta call has returned through the store that follows its move loop
StoredAndReturned == HasReturned("alphaBeta") /\ ret.frame.flag >= 0

\* C25 as stated: on both branches the flag alphaBeta stores after its move
\* loop is LOWER iff best >= the beta the node was entered with, UPPER iff
\* best <= the alpha the node was entered with (both after mate-distance
\* tightening), and EXACT otherwise.
StoredFlagFollowsEntryWindow ==
  StoredAndReturned =>
    ret.frame.flag = IF ret.frame.best >= ret.frame.beta0 THEN TT_LOWER
                     ELSE IF ret.frame.best <= ret.frame.origAlpha THEN TT_UPPER
                     ELSE TT_EXACT

\* alphaBeta has just ordered the moves of its node
MovesOrdered == At_("alphaBeta", {"loop"}) /\ ~stack[Len(stack)].searchedFirst

\* the priority class of move k at the node of frame f: 0 the table's best
\* move, 1 a capture or promotion, 2 a killer of the ply, 3 the countermove
\* to the previous move, 4 any other quiet move
MoveClass(f, k) ==
  IF ttGetMove(ttTable, f.fen) # NoMove /\ FromTo(k) = ttGetMove(ttTable, f.fen) THEN 0
  ELSE IF ~Quiet(k) THEN 1
  ELSE IF FromTo(k) \in {Killers(eng, f.ply)[1], Killers(eng, f.ply)[2]} THEN 2
  ELSE IF f.prevMoveKey # NoMove /\ At(eng.counter, f.prevMoveKey) = PieceFromTo(k) THEN 3
  ELSE 4

\* C26 as stated: orderMoves orders every move list by strict priority
\* classes: the table's best move first, every capture or promotion before
\* every quiet move, and among the quiet moves a killer of the ply before
\* the countermove, which comes before the moves ranked by history alone.
MovesOrderedByClass ==
  MovesOrdered =>
    LET f == stack[Len(stack)]
    IN  \A i, j \in DOMAIN f.moves :
          i < j => MoveClass(f, f.moves[i]) <= MoveClass(f, f.moves[j])

\* alphaBeta is back from the search of a move and goes on with the rest of
\* the loop body (it does not search the move again); Cutoff: the move
\* closes the window
AfterMove ==
  /\ At_("alphaBeta", {"first", "lmr", "pvs", "re"})
  /\ LET f == stack[Len(stack)]
     IN  ~(f.pc \in {"lmr", "pvs"} /\ ret.value > f.alpha /\ ret.value < f.beta)
Cutoff ==
  /\ AfterMove
  /\ LET f == stack[Len(stack)]
     IN  IF f.maximizing THEN Max(f.alpha, ret.value) >= f.beta
                         ELSE f.alpha >= Min(f.beta, ret.value)
SearchedMove == stack[Len(stack)].moves[stack[Len(stack)].mi + 1]

Raises ==
  /\ AfterMove
  /\ LET f == stack[Len(stack)]
     IN  IF f.maximizing THEN ret.value > f.alpha ELSE ret.value < f.beta

PrevMoveKeyIsMoveMade ==
  (MovesOrdered /\ stack[Len(stack)].ply > 0) =>
    LET f == stack[Len(stack)]
        made == Last(Pos(boards[f.ch]))
    IN  f.prevMoveKey = IF made = NullMove THEN NoMove ELSE PieceFromTo(made)

\* the window searchRoot searches at the stage of the aspiration loop named
\* by pc, prev being the score of the iteration before
AspirationWindow(pc, prev) ==
  IF pc = "narrow" THEN <<prev - 50, prev + 50>>
  ELSE IF pc = "wide" THEN <<prev - 150, prev + 150>>
  ELSE <<-INFINITY, INFINITY>>

\* C30: for each root move, iteration d = 1 searches the full window only;
\* an iteration d >= 2 searches [prev - 50, prev + 50], then
\* [prev - 150, prev + 150], then the full window, in that order, each at
\* depth d - 1, a later one only if the one before returned s <= lo or
\* s >= hi.  The score kept for the iteration is the result of the last
\* search run, which lies strictly inside the window it was searched with or
\* is the result of the full-window search; it is prev for the next
\* iteration, or the score of the root move.
AspirationWindowsWiden ==
  /\ []((Len(stack) = 3 /\ At_("alphaBeta", {"enter"})) =>
          /\ <<stack[3].alpha, stack[3].beta>> = AspirationWindow(stack[2].pc, stack[2].prevScore)
          /\ stack[3].depth = stack[2].d - 1
          /\ stack[2].d = 1 => stack[2].pc = "full")
  /\ [][(Len(stack) = 2 /\ At_("searchRoot", {"move", "narrow", "wide", "full"})) =>
          LET f == stack[2]
              s == ret.value
              w == AspirationWindow(f.pc, f.prevScore)
              g == stack'[2]
          IN  IF f.pc = "move"
                THEN f.mv <= Len(f.rawMoves) => g.pc = "full" /\ g.d = 1
              ELSE IF f.pc # "full" /\ (s <= w[1] \/ s >= w[2])
                THEN /\ g.pc = IF f.pc = "narrow" THEN "wide" ELSE "full"
                     /\ g.d = f.d /\ g.prevScore = f.prevScore
              ELSE /\ f.pc = "full" \/ (w[1] < s /\ s < w[2])
                   /\ IF Abs(s) < 29000 /\ f.d < f.depth
                        THEN g.pc = "narrow" /\ g.d = f.d + 1 /\ g.prevScore = s
                        ELSE /\ g.pc = "move"
                             /\ g.results = Append(f.results,
                                   [move |-> f.rawMoves[f.mv],
                                    score |-> IF f.max THEN s ELSE -s])]_vars

\* the full-window search of an iteration d >= 2 has returned, after the two
\* narrower windows missed
ThirdWindowSearched ==
  /\ Len(stack) = 2
  /\ At_("searchRoot", {"full"})
  /\ stack[2].d >= 2
  /\ HasReturned("alphaBeta")
  /\ Abs(ret.value - stack[2].prevScore) >= 150

\* C31 as stated: every score alphaBeta returns, and so every score of a
\* searchRoot result, has absolute value at most 30000: the window sentinel
\* 9999999 is never returned as a score.
ScoresWithinMate ==
  /\ HasReturned("alphaBeta") => Abs(ret.value) <= MATE
  /\ HasReturned("searchRoot") =>
       \A i \in DOMAIN ret.value : Abs(ret.value[i].score) <= MATE

\* the alphaBeta calls in progress that were made by an alphaBeta call
RecursiveCalls ==
  {i \in 2 .. Len(stack) : stack[i].fn = "alphaBeta" /\ stack[i - 1].fn = "alphaBeta"}

\* C32: every recursive alphaBeta call (null-move probe, first move, reduced
\* search, null-window search, re-search) is made with a depth d' such that
\* 0 <= d' < depth of the caller.
RecursionDepthDecreases ==
  \A i \in RecursiveCalls :
     /\ stack[i - 1].pc \in {"null", "first", "lmr", "pvs", "re"}
     /\ 0 <= stack[i].depth
     /\ stack[i].depth < stack[i - 1].depth

\* below a call made at a reduced depth the recursion has reached depth 0
\* and handed over to quiescence
ReducedCallReachesQuiescence ==
  /\ \E i \in RecursiveCalls :
        stack[i - 1].pc = "lmr" /\ stack[i].depth < stack[i - 1].depth - 1
  /\ At_("quiescence", {"enter"})
  /\ stack[Len(stack) - 1].fn = "alphaBeta"
  /\ stack[Len(stack) - 1].pc = "tailQ"
  /\ stack[Len(stack) - 1].depth = 0

\* C22: at the start of every searchRoot call the killer table and the move
\* stack are emptied, every history entry v becomes floor(v / 2) and the
\* entries that become 0 are removed, and the transposition table and the
\* countermove table are left as they were.
SearchRootResetsTables ==
  [][At_("searchRoot", {"enter"}) =>
       /\ eng'.killers = <<>>
       /\ eng'.moveStack = <<>>
       /\ DOMAIN eng'.hist = {k \in DOMAIN eng.hist : eng.hist[k] >= 2}
       /\ \A k \in DOMAIN eng'.hist : 2 * eng'.hist[k] \in {eng.hist[k], eng.hist[k] - 1}
       /\ eng'.counter = eng.counter
       /\ ttTable' = ttTable]_vars

\* the second searchRoot call of a worker has just reset the tables, with
\* history, countermoves and table entries left by the first
SecondCallStarted ==
  /\ At_("searchRoot", {"move"})
  /\ stack[Len(stack)].mv = 1
  /\ boards[1].hist = <<>>
  /\ Len(wk.outbox) = 1
  /\ eng.killers = <<>> /\ eng.moveStack = <<>>
  /\ eng.hist # <<>> /\ eng.counter # <<>> /\ ttTable # <<>>

(***************************************************************************)
(* analysis.js: AnalysisCoordinator._buildLines on the replies of a worker *)
(* that searched the root task, a level-1 task and a level-2 task of one   *)
(* position, in every order of arrival.                                    *)
(***************************************************************************)
MaxLinesDepth == 2   \* largest maxDepth of the coordinator
MaxLineMoves == 1    \* the level-1 and level-2 tasks follow one of the first moves

\* the tasks PlanQueue.generate makes for root move rm and reply rp: the root
\* task, the level-1 task and the level-2 task
LineTasks(maxDepth, rm, rp) ==
  <<[taskId |-> <<"root", 0>>, fen |-> <<>>, depth |-> maxDepth,
     multiPV |-> Min(8, Len(Moves(<<>>))), rootMove |-> NoMove, moves |-> <<>>],
    [taskId |-> <<"l1", 1>>, fen |-> <<rm>>, depth |-> Max(1, maxDepth - 1),
     multiPV |-> Min(4, Len(Moves(<<rm>>))), rootMove |-> rm, moves |-> <<rm>>],
    [taskId |-> <<"l2", 2>>, fen |-> <<rm, rp>>, depth |-> Max(1, maxDepth - 2),
     multiPV |-> 1, rootMove |-> rm, moves |-> <<rm, rp>>]>>

Tasks == LineTasks(game.maxDepth, game.rm, game.rp)
TaskOf(taskId) == Tasks[CHOOSE i \in DOMAIN Tasks : Tasks[i].taskId = taskId]

\* the .then of start: a reply of the worker, a result or an error payload,
\* reaches the coordinator, which notes it and emits
Collect ==
  /\ stack = <<>>
  /\ wk.outbox # <<>>
  /\ wk' = [wk EXCEPT !.outbox = Tail(@)]
  /\ _results' = Append(_results, [task |-> TaskOf(Head(wk.outbox).taskId),
                                    result |-> Head(wk.outbox)])
  /\ linesOut' = [lines |-> _buildLines(_results', game.maxDepth)]
  /\ UNCHANGED <<game, eng, boards, stack, ret, poolVars, planVars, ttVars, coordVars, evalVars>>

InitLines ==
  /\ \E seed \in 1..NSeeds, turn \in {"w", "b"}, maxDepth \in 1..MaxLinesDepth,
        a, b \in 1..MaxLineMoves, order \in [1..3 -> 1..3] :
       /\ \A i, j \in 1..3 : i # j => order[i] # order[j]
       /\ \E rm \in 1..10, rp \in 1..10 :
                /\ game = [seed |-> seed, turn |-> turn, throwNode |-> 0,
                           maxDepth |-> maxDepth, rm |-> rm, rp |-> rp]
                /\ Len(Moves(<<>>)) >= a /\ rm = Moves(<<>>)[a]
                /\ Len(Moves(<<rm>>)) >= b /\ rp = Moves(<<rm>>)[b]
                /\ wk = [inbox |-> [i \in 1..3 |-> Tasks[order[i]]], outbox |-> <<>>]
  /\ eng = EmptyEngine
  /\ boards = <<>>
  /\ stack = <<>>
  /\ ret = NoData
  /\ LinesIdle
  /\ EvalIdle
  /\ TTIdle
  /\ PoolIdle
  /\ PlanIdle
  /\ CoordIdle

NextLines == NextSearch \/ Collect

SpecLines == InitLines /\ [][NextLines]_vars

\* the result a line for root move rm takes its score from: the root result
\* if that has a line for rm, else the first level-1 or level-2 result for rm
LineSource(rm) ==
  IF \E j \in DOMAIN RootLines(_results) : RootLines(_results)[j].move = rm
    THEN [task |-> TaskOf(<<"root", 0>>),
          best |-> RootLines(_results)[CHOOSE j \in DOMAIN RootLines(_results) :
                                         RootLines(_results)[j].move = rm]]
    ELSE LET i == CHOOSE i \in DOMAIN _results :
                    /\ _results[i].task.rootMove = rm
                    /\ _results[i].result.lines # <<>>
                    /\ \A j \in 1..(i - 1) : _results[j].task.rootMove # rm
                                             \/ _results[j].result.lines = <<>>
         IN  [task |-> _results[i].task, best |-> _results[i].result.lines[1]]

\* searchRoot's score, which is positive when the side to move of the task's
\* position is better, turned positive for white
WhitePositive(task, score) == IF Turn(task.fen) = "w" THEN score ELSE -score

\* C16 as stated: every Line score passed to onUpdate is white-positive,
\* whichever side is to move at the root and whatever the level of the task
\* the line was built from.
LineScoresWhitePositive ==
  linesOut # NoData =>
    \A i \in DOMAIN linesOut.lines :
      linesOut.lines[i].score =
        WhitePositive(LineSource(linesOut.lines[i].rootMove).task,
                      LineSource(linesOut.lines[i].rootMove).best.score)

(***************************************************************************)
(* engine.js: evaluate on a board.  The boards are those with the two      *)
(* kings and queens only, no side in check: totalMat is then a multiple    *)
(* of 100, endgameW a multiple of 1/32, and every product of the code is   *)
(* exact in floating point.  A number of the code is kept as its numerator *)
(* over DEN; endgameW is E / DEN.  What chess.js tells of the position     *)
(* (side to move, move counts, draw) comes with the position.              *)
(***************************************************************************)
MaxQueens == 1         \* queens on the board
KingFiles == {4, 6}    \* the white king stands on rank 1, the black king on rank 8
QueenRanks == {4, 5}
MoveCounts == {0, 5, 26}
DEN == 3200

PIECE_VALUE(type) ==
  CASE type = "p" -> 100 [] type = "n" -> 320 [] type = "b" -> 330
    [] type = "r" -> 500 [] type = "q" -> 900 [] type = "k" -> 20000

PST_p ==
  <<0, 0, 0, 0, 0, 0, 0, 0,
    50, 50, 50, 50, 50, 50, 50, 50,
    10, 10, 20, 30, 30, 20, 10, 10,
    5, 5, 10, 25, 25, 10, 5, 5,
    0, 0, 0, 20, 20, 0, 0, 0,
    5, -5, -10, 0, 0, -10, -5, 5,
    5, 10, 10, -20, -20, 10, 10, 5,
    0, 0, 0, 0, 0, 0, 0, 0>>

PST_n ==
  <<-50, -40, -30, -30, -30, -30, -40, -50,
    -40, -20, 0, 0, 0, 0, -20, -40,
    -30, 0, 10, 15, 15, 10, 0, -30,
    -30, 5, 15, 20, 20, 15, 5, -30,
    -30, 0, 15, 20, 20, 15, 0, -30,
    -30, 5, 10, 15, 15, 10, 5, -30,
    -40, -20, 0, 5, 5, 0, -20, -40,
    -50, -40, -30, -30, -30, -30, -40, -50>>

PST_b ==
  <<-20, -10, -10, -10, -10, -10, -10, -20,
    -10, 0, 0, 0, 0, 0, 0, -10,
    -10, 0, 5, 10, 10, 5, 0, -10,
    -10, 5, 5, 10, 10, 5, 5, -10,
    -10, 0, 10, 10, 10, 10, 0, -10,
    -10, 10, 10, 10, 10, 10, 10, -10,
    -10, 5, 0, 0, 0, 0, 5, -10,
    -20, -10, -10, -10, -10, -10, -10, -20>>

PST_r ==
  <<0, 0, 0, 0, 0, 0, 0, 0,
    5, 10, 10, 10, 10, 10, 10, 5,
    -5, 0, 0, 0, 0, 0, 0, -5,
    -5, 0, 0, 0, 0, 0, 0, -5,
    -5, 0, 0, 0, 0, 0, 0, -5,
    -5, 0, 0, 0, 0, 0, 0, -5,
    -5, 0, 0, 0, 0, 0, 0, -5,
    0, 0, 0, 5, 5, 0, 0, 0>>

PST_q ==
  <<-20, -10, -10, -5, -5, -10, -10, -20,
    -10, 0, 0, 0, 0, 0, 0, -10,
    -10, 0, 5, 5, 5, 5, 0, -10,
    -5, 0, 5, 5, 5, 5, 0, -5,
    0, 0, 5, 5, 5, 5, 0, -5,
    -10, 5, 5, 5, 5, 5, 0, -10,
    -10, 0, 5, 0, 0, 0, 0, -10,
    -20, -10, -10, -5, -5, -10, -10, -20>>

PST_k ==
  <<-30, -40, -40, -50, -50, -40, -40, -30,
    -30, -40, -40, -50, -50, -40, -40, -30,
    -30, -40, -40, -50, -50, -40, -40, -30,
    -30, -40, -40, -50, -50, -40, -40, -30,
    -20, -30, -30, -40, -40, -30, -30, -20,
    -10, -20, -20, -20, -20, -20, -20, -10,
    20, 20, 0, 0, 0, 0, 20, 20,
    20, 30, 10, 0, 0, 10, 30, 20>>

PST_kE ==
  <<-50, -40, -30, -20, -20, -30, -40, -50,
    -30, -20, -10, 0, 0, -10, -20, -30,
    -30, -10, 20, 30, 30, 20, -10, -30,
    -30, -10, 30, 40, 40, 30, -10, -30,
    -30, -10, 30, 40, 40, 30, -10, -30,
    -30, -10, 20, 30, 30, 20, -10, -30,
    -30, -30, 0, 0, 0, 0, -30, -30,
    -50, -30, -30, -30, -30, -30, -30, -50>>

PST(type) ==
  CASE type = "p" -> PST_p [] type = "n" -> PST_n [] type = "b" -> PST_b
    [] type = "r" -> PST_r [] type = "q" -> PST_q [] type = "k" -> PST_k

\* sqIdx(sq, color) for the square of file f (0 = a) and the given rank (1..8)
sqIdx(f, rank, color) ==
  IF color = "w" THEN (7 - (rank - 1)) * 8 + f ELSE (rank - 1) * 8 + (7 - f)

\* Math.round(n / d), d > 0: halves go up
Round(n, d) == (2 * n + d) \div (2 * d)

\* the sum of the second components of a set of pairs
RECURSIVE SumPairs(_)
SumPairs(S) ==
  IF S = {} THEN 0
  ELSE LET x == CHOOSE x \in S : TRUE IN x[2] + SumPairs(S \ {x})

Side(piece) == IF piece.color = "w" THEN 1 ELSE -1
Chebyshev(f1, r1, f2, r2) == Max(Abs(f1 - f2), Abs(r1 - r2))

\* material and piece-square tables, the king's table left out
MaterialAndPst(board) ==
  SumPairs({<<p, Side(p) * (PIECE_VALUE(p.type)
                            + (IF p.type # "k"
                                 THEN PST(p.type)[sqIdx(p.f, p.rank, p.color) + 1]
                                 ELSE 0))>> : p \in board})

Mat(board, color) ==
  SumPairs({<<p, PIECE_VALUE(p.type)>> : p \in {q \in board : q.color = color}})

\* endgameW * DEN
EndgameW(board) ==
  Max(0, DEN - (Mat(board, "w") + Mat(board, "b") - PIECE_VALUE("k") * 2))

\* the bishop pair bonus
BishopPair(board) ==
  LET pawns == Cardinality({p \in board : p.type = "p"})
      bonus == Round(Max(9 * 16, 30 * (16 - pawns)), 16)
      pair(color) == Cardinality({p \in board : p.type = "b" /\ p.color = color}) >= 2
  IN  (IF pair("w") THEN bonus ELSE 0) - (IF pair("b") THEN bonus ELSE 0)

\* kVal * DEN of a king: kMid * (1 - endgameW) + kEnd * endgameW, not rounded
kVal(k, E) ==
  PST_k[sqIdx(k.f, k.rank, k.color) + 1] * (DEN - E)
  + PST_kE[sqIdx(k.f, k.rank, k.color) + 1] * E

\* the king terms, times DEN
KingBlend(board, E) ==
  SumPairs({<<k, Side(k) * kVal(k, E)>> : k \in {p \in board : p.type = "k"}})

King(board, color) == CHOOSE k \in board : k.type = "k" /\ k.color = color

TROPISM_W(type) ==
  CASE type = "n" -> 3 [] type = "b" -> 2 [] type = "r" -> 2 [] type = "q" -> 4
    [] OTHER -> 0

kingTropismScore(board) ==
  LET term(p) ==
        LET k == King(board, IF p.color = "w" THEN "b" ELSE "w")
        IN  Side(p) * Max(0, (7 - Chebyshev(p.f, p.rank, k.f, k.rank)) * TROPISM_W(p.type))
  IN  Round(SumPairs({<<p, term(p)>> : p \in {q \in board : TROPISM_W(q.type) # 0}}), 2)

ATTACK_WEIGHT(type) ==
  CASE type = "p" -> 1 [] type = "n" -> 2 [] type = "b" -> 2 [] type = "r" -> 3
    [] type = "q" -> 5 [] type = "k" -> 0

penalty(att) ==
  IF att = 0 THEN 0 ELSE IF att = 1 THEN 10 ELSE IF att = 2 THEN 25
  ELSE IF att = 3 THEN 45 ELSE 70 + (att - 3) * 15

kingAttackScore(board, E) ==
  LET zone(color) ==
        LET k == King(board, color)
        IN  SumPairs({<<p, ATTACK_WEIGHT(p.type)>> :
                        p \in {q \in board : /\ q.type # "k"
                                             /\ q.color # color
                                             /\ Abs(q.f - k.f) <= 1
                                             /\ Abs(q.rank - k.rank) <= 1}})
  IN  IF 10 * E > 7 * DEN THEN 0
      ELSE Round((penalty(zone("b")) - penalty(zone("w"))) * (DEN - E), DEN)

\* pawnEval, rook on the 7th rank, knight outpost, space, rook battery and
\* hanging pieces: each of their terms takes a pawn, a rook or a knight,
\* and the boards hold none
PawnRookKnightTerms == 0

tempoVal(E) == Round(15 * DEN - 10 * E, DEN)

Mobility(pos, E) ==
  LET wMobility == IF pos.turn = "w" THEN pos.toMoveCount ELSE pos.oppCount
      bMobility == IF pos.turn = "w" THEN pos.oppCount ELSE pos.toMoveCount
  IN  Round((wMobility - bMobility) * 2 * (DEN - E), DEN)

\* evaluate(chess, skipMobility) * DEN
evaluateBoard(pos, skipMobility) ==
  LET board == pos.board
      E == EndgameW(board)
  IN  IF pos.checkmate THEN DEN * (IF pos.turn = "w" THEN -30000 ELSE 30000)
      ELSE IF pos.draw THEN 0
      ELSE DEN * (MaterialAndPst(board)
                  + BishopPair(board)
                  + PawnRookKnightTerms
                  + kingAttackScore(board, E)
                  + kingTropismScore(board)
                  + (IF pos.turn = "w" THEN tempoVal(E) ELSE -tempoVal(E))
                  + (IF skipMobility THEN 0 ELSE Mobility(pos, E)))
           + KingBlend(board, E)

\* the colour mirror of a position: ranks flipped, colours and side to move
\* swapped; chess.js finds the same move counts for the mirrored sides
Other(color) == IF color = "w" THEN "b" ELSE "w"
Mirror(pos) ==
  [pos EXCEPT !.board = {[p EXCEPT !.color = Other(p.color), !.rank = 9 - p.rank] :
                           p \in pos.board},
              !.turn = Other(pos.turn)]

\* a queen that stands on a line with the enemy king
Aligned(q, k) ==
  q.f = k.f \/ q.rank = k.rank \/ Abs(q.f - k.f) = Abs(q.rank - k.rank)

Queens ==
  {[type |-> "q", color |-> c, f |-> f, rank |-> r] :
     c \in {"w", "b"}, f \in 0..7, r \in QueenRanks}

\* the sets of at most n queens
RECURSIVE QueenSets(_)
QueenSets(n) ==
  IF n = 0 THEN {{}}
  ELSE QueenSets(n - 1) \cup {Q \cup {q} : Q \in QueenSets(n - 1), q \in Queens}

BoardPositions ==
  {[board |-> {[type |-> "k", color |-> "w", f |-> wf, rank |-> 1],
               [type |-> "k", color |-> "b", f |-> bf, rank |-> 8]} \cup qs,
    turn |-> t, toMoveCount |-> m, oppCount |-> o,
    checkmate |-> FALSE,
    draw |-> (qs = {} \/ m = 0)] :
     wf \in KingFiles, bf \in KingFiles, t \in {"w", "b"},
     m \in MoveCounts, o \in MoveCounts,
     qs \in {Q \in QueenSets(MaxQueens) :
               \A q1, q2 \in Q : (q1.f = q2.f /\ q1.rank = q2.rank) => q1 = q2}}

Legal(pos) ==
  \A q \in pos.board : q.type = "q" => ~Aligned(q, King(pos.board, Other(q.color)))

InitEval ==
  /\ evalIn \in {pos \in BoardPositions : Legal(pos)}
  /\ evalOut = NoData
  /\ SearchIdle /\ LinesIdle /\ TTIdle /\ PoolIdle /\ PlanIdle /\ CoordIdle

\* evaluate is called on the position and on its mirror
Evaluate ==
  /\ evalOut = NoData
  /\ evalOut' = [value    |-> [skip \in BOOLEAN |-> evaluateBoard(evalIn, skip)],
                 mirrored |-> [skip \in BOOLEAN |-> evaluateBoard(Mirror(evalIn), skip)]]
  /\ UNCHANGED <<evalIn, searchVars, linesVars, poolVars, planVars, ttVars, coordVars>>

NextEval == Evaluate

SpecEval == InitEval /\ [][NextEval]_vars

\* C39 as stated: for every square the table index used for a black piece
\* is the index used for a white piece on the vertically mirrored square
\* (same file, rank r mapped to 9 - r); the squares are those of the pieces
\* of the position evaluated.
BlackIndexIsVerticalFlip ==
  \A p \in evalIn.board :
    sqIdx(p.f, p.rank, "b") = sqIdx(p.f, 9 - p.rank, "w")

\* C18 as stated: evaluate(P) = -evaluate(P') for the colour mirror P' of P.
MirrorNegates ==
  evalOut # NoData =>
    \A skip \in BOOLEAN : evalOut.value[skip] = -evalOut.mirrored[skip]

\* C20 as stated: evaluate returns an integer.
EvaluateIsInteger ==
  evalOut # NoData =>
    \A skip \in BOOLEAN : evalOut.value[skip] % DEN = 0

\* C24 as stated: in every emission the line at position i of the emitted
\* list, counted from 0, carries palette entry i mod 32.
ColourFollowsPosition ==
  emission # NoData =>
    \A i \in DOMAIN emission.lines : emission.lines[i].color = (i - 1) % NCOLORS

====
